---------------------------- MODULE Spec2Model ----------------------------
(***************************************************************************)
(* Model of the CGO proposal workflow (workflow.py), its Slack transport   *)
(* (app.py, handler.py, slack.py), the pure recommendation functions and   *)
(* the parsers of the deal reference.                                      *)
(*                                                                         *)
(* Texts are strings; Python's str operations (lower, strip, `in`,         *)
(* re.search) are computed character by character over them.  Every        *)
(* network call is one step whose outcome the environment chooses among    *)
(* Outcomes; requests raises HTTPError only for an HTTP error status       *)
(* (raise_for_status), and Timeout / ConnectionError otherwise.            *)
(***************************************************************************)
EXTENDS Integers, Sequences, FiniteSets, TLC

(***************************************************************************)
(* Bounds of the model.                                                    *)
(***************************************************************************)
\* Companies plus contacts associated to a deal.
MaxAssociations == 2
\* Meetings associated to a deal.
MaxMeetings == 1
\* Transcripts handed to recommend_services on its own.
MaxTranscripts == 2
\* Digits of a tenant id or a deal id in the texts handed to the parsers.
MaxIdLen == 1

\* Python's None: an unset environment variable, a missing JSON field.
NoValue == "<None>"

(***************************************************************************)
(* Python string operations.                                               *)
(***************************************************************************)
UpperChars == "ABCDEFGHIJKLMNOPQRSTUVWXYZ"
LowerChars == "abcdefghijklmnopqrstuvwxyz"
Digits == {"0", "1", "2", "3", "4", "5", "6", "7", "8", "9"}

CharAt(s, i) == SubSeq(s, i, i)

lower_char(c) ==
    IF \E i \in 1..Len(UpperChars) : CharAt(UpperChars, i) = c
    THEN CharAt(LowerChars, CHOOSE i \in 1..Len(UpperChars) : CharAt(UpperChars, i) = c)
    ELSE c

RECURSIVE lower(_)
lower(s) ==
    IF s = "" THEN "" ELSE lower_char(CharAt(s, 1)) \o lower(SubSeq(s, 2, Len(s)))

\* Python's `pat in text` for a non-empty pattern.
Contains(text, pat) ==
    \E i \in 1..(Len(text) - Len(pat) + 1) : SubSeq(text, i, i + Len(pat) - 1) = pat

(***************************************************************************)
(* The static tables.                                                      *)
(***************************************************************************)
SERVICES ==
    << [sku |-> "CGO-MKTOPS", name |-> "Marketing Operations Consulting", price |-> 3000],
       [sku |-> "CGO-SALESOPS", name |-> "Sales Operations Consulting", price |-> 3000],
       [sku |-> "CGO-CRM", name |-> "CRM Management", price |-> 2000],
       [sku |-> "CGO-DATA", name |-> "Ongoing Data Enrichment", price |-> 1500],
       [sku |-> "CGO-EMAIL", name |-> "Email Outreach Automation", price |-> 1500],
       [sku |-> "CGO-LINKEDIN", name |-> "LinkedIn Outreach Automation", price |-> 1500],
       [sku |-> "CGO-BUNDLE", name |-> "CGO Bundle (Full)", price |-> 12000] >>

PAIN_POINT_MAP ==
    ("CGO-CRM" :> << "hubspot underutilized", "crm", "data silo", "logging", "data quality",
                     "duplicates", "messy data", "hubspot help", "custom properties",
                     "reporting", "dashboards" >>)
 @@ ("CGO-MKTOPS" :> << "marketing automation", "lead scoring", "campaigns", "abm",
                        "marketing attribution", "visitor identification", "website traffic",
                        "de-anonymize", "lead qualification", "mql", "nurture" >>)
 @@ ("CGO-SALESOPS" :> << "sales enablement", "pipeline", "sequences", "sales process",
                          "forecasting", "sales team", "quota", "opportunity",
                          "deal velocity", "win rate", "sales handoff" >>)
 @@ ("CGO-DATA" :> << "data enrichment", "target market data", "contacts", "validation",
                      "lead lists", "icp data", "firmographic", "technographic",
                      "buying signals", "intent data", "clay" >>)
 @@ ("CGO-EMAIL" :> << "email campaign", "cold email", "deliverability", "outreach",
                       "email sequences", "prospecting email", "spam", "email warmup",
                       "open rates", "reply rates" >>)
 @@ ("CGO-LINKEDIN" :> << "linkedin campaign", "linkedin outreach", "social selling",
                          "linkedin prospecting", "connection requests", "inmail",
                          "linkedin automation", "social" >>)

(***************************************************************************)
(* The recommendation engine.                                              *)
(***************************************************************************)
\* The inner loop of _recommend_from_transcript: the score of one sku.
RECURSIVE score_of(_, _)
score_of(indicators, text_lower) ==
    IF indicators = << >> THEN 0
    ELSE (IF Contains(text_lower, Head(indicators)) THEN 2 ELSE 0)
         + score_of(Tail(indicators), text_lower)

recommend_from_transcript(text) ==
    LET text_lower == lower(text)
    IN  { sku \in DOMAIN PAIN_POINT_MAP :
            /\ sku # "CGO-BUNDLE"
            /\ score_of(PAIN_POINT_MAP[sku], text_lower) >= 2 }

RECURSIVE sum_prices(_)
sum_prices(svcs) ==
    IF svcs = << >> THEN 0 ELSE Head(svcs).price + sum_prices(Tail(svcs))

IsBundle(s) == s.sku = "CGO-BUNDLE"

all_skus_of(ts) == UNION { recommend_from_transcript(ts[i]) : i \in DOMAIN ts }

\* recommend_services with the override one sku late (> 4 for >= 4).
recommend_services_OffByOne(ts) ==
    LET all_skus == all_skus_of(ts)
        InAll(s) == s.sku \in all_skus
        recommended == SelectSeq(SERVICES, InAll)
    IN  IF Cardinality(all_skus) > 4
        THEN << SelectSeq(SERVICES, IsBundle), 12000 >>
        ELSE << recommended, sum_prices(recommended) >>

\* recommend_services with the bundle priced at the sum of the entries it replaces.
recommend_services_BundleAtSum(ts) ==
    LET all_skus == all_skus_of(ts)
        InAll(s) == s.sku \in all_skus
        recommended == SelectSeq(SERVICES, InAll)
    IN  IF Cardinality(all_skus) >= 4
        THEN << SelectSeq(SERVICES, IsBundle), sum_prices(recommended) >>
        ELSE << recommended, sum_prices(recommended) >>

Reversed(q) == [i \in DOMAIN q |-> q[Len(q) + 1 - i]]

\* recommend_services with the entries in another order than the catalog's.
recommend_services_Reordered(ts) ==
    LET all_skus == all_skus_of(ts)
        InAll(s) == s.sku \in all_skus
        recommended == Reversed(SelectSeq(SERVICES, InAll))
    IN  IF Cardinality(all_skus) >= 4
        THEN << SelectSeq(SERVICES, IsBundle), 12000 >>
        ELSE << recommended, sum_prices(recommended) >>

\* Returns <<recommended services, total_monthly>>.
recommend_services(ts) ==
    LET all_skus == all_skus_of(ts)
        InAll(s) == s.sku \in all_skus
        recommended == SelectSeq(SERVICES, InAll)
    IN  IF Cardinality(all_skus) >= 4
        THEN << SelectSeq(SERVICES, IsBundle), 12000 >>
        ELSE << recommended, sum_prices(recommended) >>

(***************************************************************************)
(* Deal reference parsing.                                                 *)
(***************************************************************************)
Whitespace == {" ", "\t", "\n", "\r"}

RECURSIVE lstrip(_)
lstrip(s) ==
    IF s # "" /\ CharAt(s, 1) \in Whitespace THEN lstrip(SubSeq(s, 2, Len(s))) ELSE s

RECURSIVE rstrip(_)
rstrip(s) ==
    IF s # "" /\ CharAt(s, Len(s)) \in Whitespace THEN rstrip(SubSeq(s, 1, Len(s) - 1)) ELSE s

\* Python's str.strip().
strip(s) == rstrip(lstrip(s))

\* The last position of the run of digits (\d+, greedy) that starts at i;
\* i - 1 when there is no digit at i.
RECURSIVE DigitRunEnd(_, _)
DigitRunEnd(s, i) ==
    IF i <= Len(s) /\ CharAt(s, i) \in Digits THEN DigitRunEnd(s, i + 1) ELSE i - 1

\* re.match at position i of  prefix \d+ middle \d+ : the positions
\* <<a, b, c, d>> of the two digit groups, or << >>.  Neither literal
\* starts with a digit, so the greedy runs are the only way to match.
MatchAt(s, i, prefix, middle) ==
    LET a == i + Len(prefix)
        b == DigitRunEnd(s, a)
        c == b + 1 + Len(middle)
        d == DigitRunEnd(s, c)
    IN  IF /\ a - 1 <= Len(s)
           /\ SubSeq(s, i, a - 1) = prefix
           /\ b >= a
           /\ c - 1 <= Len(s)
           /\ SubSeq(s, b + 1, c - 1) = middle
           /\ d >= c
        THEN << a, b, c, d >>
        ELSE << >>

\* re.search: the leftmost position where the pattern matches, 0 if none.
SearchPos(s, prefix, middle) ==
    IF \E i \in 1..Len(s) : MatchAt(s, i, prefix, middle) # << >>
    THEN CHOOSE i \in 1..Len(s) :
            /\ MatchAt(s, i, prefix, middle) # << >>
            /\ \A j \in 1..(i - 1) : MatchAt(s, j, prefix, middle) = << >>
    ELSE 0

\* parse_deal_url with the object type of the path left open (0-2 as well
\* as 0-3).
parse_deal_url_AnyObjectType(url) ==
    LET mid == IF SearchPos(url, "contacts/", "/record/0-3/") # 0
               THEN "/record/0-3/" ELSE "/record/0-2/"
        i == SearchPos(url, "contacts/", mid)
        m == MatchAt(url, i, "contacts/", mid)
    IN  IF i = 0 THEN << >>
        ELSE << SubSeq(url, m[1], m[2]), SubSeq(url, m[3], m[4]) >>

\* parse_deal_url with one digit, not the run of digits, taken as the deal id.
parse_deal_url_OneDigitDeal(url) ==
    LET i == SearchPos(url, "contacts/", "/record/0-3/")
        m == MatchAt(url, i, "contacts/", "/record/0-3/")
    IN  IF i = 0 THEN << >>
        ELSE << SubSeq(url, m[1], m[2]), SubSeq(url, m[3], m[3]) >>

\* Returns <<portal_id, deal_id>>, or << >> for Python's None.
parse_deal_url(url) ==
    LET i == SearchPos(url, "contacts/", "/record/0-3/")
        m == MatchAt(url, i, "contacts/", "/record/0-3/")
    IN  IF i = 0 THEN << >>
        ELSE << SubSeq(url, m[1], m[2]), SubSeq(url, m[3], m[4]) >>

\* Returns the matched url, else the stripped text, else NoValue.
parse_deal_url_from_text(text) ==
    LET i == SearchPos(text, "https://app.hubspot.com/contacts/", "/record/0-3/")
        m == MatchAt(text, i, "https://app.hubspot.com/contacts/", "/record/0-3/")
    IN  IF i # 0 THEN SubSeq(text, i, m[4])
        ELSE IF strip(text) # "" THEN strip(text)
        ELSE NoValue

(***************************************************************************)
(* Inputs of the model: the environment, the Slack request, the answers    *)
(* of the CRM and of the narrative-generation API.                         *)
(***************************************************************************)
\* How a requests call ends: a 2xx answer, an HTTP error status
\* (raise_for_status raises requests.HTTPError), requests.Timeout,
\* requests.ConnectionError.
Outcomes == {"ok", "http_error", "timeout", "conn_error"}

\* Python truthiness of an optional string (`not x`).
Falsy(x) == x = NoValue \/ x = ""

ApiKeyValues == {NoValue, "", "pat-na1"}
PortalIdValues == {NoValue, "", "1"}
AnthropicKeyValues == {NoValue, "", "sk-ant"}
SigningSecretValues == {NoValue, "", "s3cret"}

\* The key the request's X-Slack-Signature was computed with.
SignatureKeys == {"s3cret", "forged"}
ResponseUrls == {"", "https://hooks.slack.com/commands/r1"}
CommandTexts ==
    { "", "   ",
      "https://app.hubspot.com/contacts/1/record/0-3/42",
      "quote for https://app.hubspot.com/contacts/2/record/0-3/42 please",
      "https://app.hubspot.com/contacts/2/record/0-3/42",
      "https://app.hubspot.com/contacts/1/record/0-2/42",
      " deal 42 " }

DealNames == {NoValue, "Acme Renewal"}
CompanyId(i) == "c" \o ToString(i)
ContactId(i) == "p" \o ToString(i)
MeetingId(i) == "m" \o ToString(i)
IdSeq(f(_), n) == [i \in 1..n |-> f(i)]

\* hs_internal_meeting_notes of a meeting (NoValue: the field is null).
NoteTexts ==
    { NoValue,
      "crm pipeline notes typed by hand",
      "AI Meeting Summary: budget only",
      "AI Meeting Summary: CRM reporting, Pipeline and quota",
      "Generated by Fathom: abm, clay, outreach, inmail" }

\* results of the meeting associations: toObjectId of each, NoValue if absent.
MeetingAssocResults ==
    { [i \in 1..k |-> MeetingId(i)] : k \in 0..MaxMeetings }
    \cup { << NoValue >> \o [i \in 1..k |-> MeetingId(i)] : k \in 0..(MaxMeetings - 1) }

Product(sku) == [id |-> "prod-" \o sku, hs_sku |-> sku]
\* results of GET /crm/v3/objects/products.
ProductResults ==
    { [i \in 1..Len(SERVICES) |-> Product(SERVICES[i].sku)],
      << >>,
      << Product("CGO-SALESOPS"), [id |-> "prod-x", hs_sku |-> NoValue],
         Product("CGO-BUNDLE"), Product("OTHER-SKU") >> }

HtmlTexts == {"<h3>Understanding Your Challenges</h3>"}

(***************************************************************************)
(* Messages of the Failed results of run_workflow.                         *)
(***************************************************************************)
ERR_HUBSPOT_CONFIG == "HUBSPOT_API_KEY and HUBSPOT_PORTAL_ID must be set"
ERR_ANTHROPIC_CONFIG == "ANTHROPIC_API_KEY must be set for AI generation"
ERR_INVALID_URL == "Invalid HubSpot deal URL. Use: https://app.hubspot.com/contacts/PORTAL_ID/record/0-3/DEAL_ID"
ERR_PORTAL_MISMATCH(url_p, portal) ==
    "Deal URL portal " \o url_p \o " does not match configured HUBSPOT_PORTAL_ID " \o portal
ERR_HUBSPOT_API == "HubSpot API error: "
ERR_NO_TRANSCRIPTS == "No Fathom meeting summaries found for this deal. Please ensure discovery calls are recorded with Fathom and linked to the deal, or add discovery notes manually."
ERR_CLAUDE_API == "Claude API error: "
ERR_QUOTE == "HubSpot error creating quote: "

Failed(msg) == [success |-> FALSE, error |-> msg]

(***************************************************************************)
(* State.                                                                  *)
(***************************************************************************)
VARIABLES
    env,             \* os.environ
    suspended,       \* the frames of the threads that are not running now
    pc,              \* position of the request handler / the background thread
    request,         \* slack_cgo_proposal: the request received
    http_response,   \* what slack_cgo_proposal answered
    response_url,    \* handle_slash_command: response_url
    deal_url,        \* run_workflow: deal_url
    url_portal,      \* run_workflow: url_portal
    deal_id,         \* run_workflow: deal_id
    deal_name,       \* run_workflow: deal_name
    company_ids,     \* run_workflow: company_ids
    contact_ids,     \* run_workflow: contact_ids
    companies,       \* fetch_companies: companies
    contacts,        \* fetch_contacts: contacts
    company_name,    \* run_workflow: company_name
    results,         \* fetch_fathom_transcripts: results
    idx,             \* position of the loop in progress
    transcripts,     \* run_workflow: transcripts
    services,        \* run_workflow: services
    total,           \* run_workflow: total
    exec_summary,    \* run_workflow: exec_summary
    preview,         \* run_workflow: preview
    sku_to_id,       \* create_quote_and_line_items: sku_to_id
    quote_id,        \* create_quote_and_line_items: quote_id
    line_item_id,    \* create_quote_and_line_items: line_item["id"]
    crm_quotes,      \* the CRM: quotes created
    crm_line_items,  \* the CRM: line items created
    result,          \* the WorkflowResults run_workflow returned
    posts,           \* the posts made to the response_url
    log              \* the calls made, in order, with how each ended

reqVars == << request, http_response, response_url, deal_url >>
parseVars == << url_portal, deal_id >>
dealVars == << deal_name, company_ids, contact_ids >>
assocVars == << companies, contacts, company_name >>
recVars == << services, total >>
genVars == << exec_summary, preview >>
quoteVars == << sku_to_id, quote_id, line_item_id >>
crmVars == << crm_quotes, crm_line_items >>

vars == << env, suspended, pc, reqVars, parseVars, dealVars, assocVars, results, idx, transcripts,
           recVars, genVars, quoteVars, crmVars, result, posts, log >>

\* No request has been received.
NoRequest == [signature_key |-> NoValue, response_url |-> NoValue, text |-> NoValue]

Logged(call, outcome) == Append(log, [call |-> call, outcome |-> outcome])

\* The values of everything but env, pc, request and transcripts before a
\* request.
Blank ==
    /\ http_response = NoValue
    /\ response_url = NoValue
    /\ deal_url = NoValue
    /\ url_portal = NoValue
    /\ deal_id = NoValue
    /\ deal_name = NoValue
    /\ company_ids = << >>
    /\ contact_ids = << >>
    /\ companies = << >>
    /\ contacts = << >>
    /\ company_name = NoValue
    /\ results = << >>
    /\ idx = 0
    /\ services = << >>
    /\ total = 0
    /\ exec_summary = NoValue
    /\ preview = NoValue
    /\ sku_to_id = << >>
    /\ quote_id = NoValue
    /\ line_item_id = NoValue
    /\ crm_quotes = {}
    /\ crm_line_items = {}
    /\ result = << >>
    /\ posts = << >>
    /\ log = << >>

Init ==
    /\ env \in [ HUBSPOT_API_KEY : ApiKeyValues,
                 HUBSPOT_PORTAL_ID : PortalIdValues,
                 ANTHROPIC_API_KEY : AnthropicKeyValues,
                 SLACK_SIGNING_SECRET : SigningSecretValues ]
    /\ pc = "idle"
    /\ request = NoRequest
    /\ transcripts = << >>
    /\ suspended = {}
    /\ Blank

(***************************************************************************)
(* The transport.                                                          *)
(***************************************************************************)
\* verify_slack_request without the refusal of an unset signing secret.
verify_slack_request_UnsetSecretAccepted(signature_key) ==
    LET secret == env.SLACK_SIGNING_SECRET
    IN  IF Falsy(secret) THEN TRUE ELSE signature_key = secret

\* hmac.compare_digest(computed, signature): the digests agree exactly when
\* the signature was computed with the configured secret.
verify_slack_request(signature_key) ==
    LET secret == env.SLACK_SIGNING_SECRET
    IN  IF Falsy(secret) THEN FALSE ELSE signature_key = secret

\* slack_cgo_proposal and handle_slash_command, up to thread.start().
SlackRequest(signature_key, rurl, text) ==
    /\ pc = "idle"
    /\ request' = [signature_key |-> signature_key, response_url |-> rurl, text |-> text]
    /\ LET parsed_text == parse_deal_url_from_text(text)
           arg == IF parsed_text = NoValue THEN "" ELSE parsed_text
           url == strip(arg)
       IN  IF ~verify_slack_request(signature_key)
           THEN /\ http_response' = "401 Invalid signature"
                /\ pc' = "rejected"
                /\ UNCHANGED << response_url, deal_url >>
           ELSE IF rurl = ""
           THEN /\ http_response' = "200 Missing response_url"
                /\ pc' = "rejected"
                /\ UNCHANGED << response_url, deal_url >>
           ELSE IF url = ""
           THEN /\ http_response' = "200 Usage"
                /\ pc' = "rejected"
                /\ UNCHANGED << response_url, deal_url >>
           ELSE /\ http_response' = "200 Generating CGO proposal"
                /\ response_url' = rurl
                /\ deal_url' = url
                /\ pc' = "run_workflow"
    /\ UNCHANGED << env, suspended, parseVars, dealVars, assocVars, results, idx, transcripts,
                    recVars, genVars, quoteVars, crmVars, result, posts, log >>

(***************************************************************************)
(* run_workflow.                                                           *)
(***************************************************************************)
\* `return {...}` of run_workflow.
Return(r) ==
    /\ result' = Append(result, r)
    /\ pc' = "returned"

\* An exception that is no requests.HTTPError: nothing catches it, it ends
\* the background thread.
Raise ==
    /\ pc' = "raised"
    /\ UNCHANGED result

\* Preconditions without the comparison of the parsed tenant to the
\* configured one.
Preconditions_NoTenantCheck ==
    /\ pc = "run_workflow"
    /\ LET api_key == env.HUBSPOT_API_KEY
           portal_id == env.HUBSPOT_PORTAL_ID
           anthropic_key == env.ANTHROPIC_API_KEY
           parsed == parse_deal_url(deal_url)
       IN  IF Falsy(api_key) \/ Falsy(portal_id)
           THEN Return(Failed(ERR_HUBSPOT_CONFIG)) /\ UNCHANGED << parseVars, log >>
           ELSE IF Falsy(anthropic_key)
           THEN Return(Failed(ERR_ANTHROPIC_CONFIG)) /\ UNCHANGED << parseVars, log >>
           ELSE IF parsed = << >>
           THEN /\ Return(Failed(ERR_INVALID_URL))
                /\ log' = Logged("parse", "none")
                /\ UNCHANGED parseVars
           ELSE /\ pc' = "fetch_deal"
                /\ log' = Logged("parse", "parsed")
                /\ url_portal' = parsed[1]
                /\ deal_id' = parsed[2]
                /\ UNCHANGED result
    /\ UNCHANGED << env, suspended, reqVars, dealVars, assocVars, results, idx, transcripts,
                    recVars, genVars, quoteVars, crmVars, posts >>

\* Preconditions without the check of ANTHROPIC_API_KEY: the key is first
\* missed when the narrative is generated.
Preconditions_AnthropicKeyUnchecked ==
    /\ pc = "run_workflow"
    /\ LET api_key == env.HUBSPOT_API_KEY
           portal_id == env.HUBSPOT_PORTAL_ID
           parsed == parse_deal_url(deal_url)
       IN  IF Falsy(api_key) \/ Falsy(portal_id)
           THEN Return(Failed(ERR_HUBSPOT_CONFIG)) /\ UNCHANGED << parseVars, log >>
           ELSE IF parsed = << >>
           THEN /\ Return(Failed(ERR_INVALID_URL))
                /\ log' = Logged("parse", "none")
                /\ UNCHANGED parseVars
           ELSE IF parsed[1] # portal_id
           THEN /\ Return(Failed(ERR_PORTAL_MISMATCH(parsed[1], portal_id)))
                /\ log' = Logged("parse", "parsed")
                /\ url_portal' = parsed[1]
                /\ deal_id' = parsed[2]
           ELSE /\ pc' = "fetch_deal"
                /\ log' = Logged("parse", "parsed")
                /\ url_portal' = parsed[1]
                /\ deal_id' = parsed[2]
                /\ UNCHANGED result
    /\ UNCHANGED << env, suspended, reqVars, dealVars, assocVars, results, idx, transcripts,
                    recVars, genVars, quoteVars, crmVars, posts >>

\* Lines 293-306: configuration, parsing and the tenant check.
Preconditions ==
    /\ pc = "run_workflow"
    /\ LET api_key == env.HUBSPOT_API_KEY
           portal_id == env.HUBSPOT_PORTAL_ID
           anthropic_key == env.ANTHROPIC_API_KEY
           parsed == parse_deal_url(deal_url)
       IN  IF Falsy(api_key) \/ Falsy(portal_id)
           THEN Return(Failed(ERR_HUBSPOT_CONFIG)) /\ UNCHANGED << parseVars, log >>
           ELSE IF Falsy(anthropic_key)
           THEN Return(Failed(ERR_ANTHROPIC_CONFIG)) /\ UNCHANGED << parseVars, log >>
           ELSE IF parsed = << >>
           THEN /\ Return(Failed(ERR_INVALID_URL))
                /\ log' = Logged("parse", "none")
                /\ UNCHANGED parseVars
           ELSE IF parsed[1] # portal_id
           THEN /\ Return(Failed(ERR_PORTAL_MISMATCH(parsed[1], portal_id)))
                /\ log' = Logged("parse", "parsed")
                /\ url_portal' = parsed[1]
                /\ deal_id' = parsed[2]
           ELSE /\ pc' = "fetch_deal"
                /\ log' = Logged("parse", "parsed")
                /\ url_portal' = parsed[1]
                /\ deal_id' = parsed[2]
                /\ UNCHANGED result
    /\ UNCHANGED << env, suspended, reqVars, dealVars, assocVars, results, idx, transcripts,
                    recVars, genVars, quoteVars, crmVars, posts >>

\* FetchDeal with the HTTPError of fetch_deal swallowed, as the tolerant
\* fetchers do, instead of returned as a failure.
FetchDeal_ErrorSwallowed(outcome, dealname, n_companies, n_contacts) ==
    /\ pc = "fetch_deal"
    /\ log' = Logged("fetch_deal", outcome)
    /\ IF outcome \in {"ok", "http_error"}
       THEN /\ deal_name' = IF dealname = NoValue THEN "Unknown Deal" ELSE dealname
            /\ company_ids' = IdSeq(CompanyId, n_companies)
            /\ contact_ids' = IdSeq(ContactId, n_contacts)
            /\ idx' = 1
            /\ pc' = "fetch_companies"
            /\ UNCHANGED result
       ELSE /\ Raise
            /\ UNCHANGED << dealVars, idx >>
    /\ UNCHANGED << env, suspended, reqVars, parseVars, assocVars, results, transcripts,
                    recVars, genVars, quoteVars, crmVars, posts >>

\* Lines 308-317: fetch_deal and the ids of its associations.
FetchDeal(outcome, dealname, n_companies, n_contacts) ==
    /\ pc = "fetch_deal"
    /\ log' = Logged("fetch_deal", outcome)
    /\ IF outcome = "ok"
       THEN /\ deal_name' = IF dealname = NoValue THEN "Unknown Deal" ELSE dealname
            /\ company_ids' = IdSeq(CompanyId, n_companies)
            /\ contact_ids' = IdSeq(ContactId, n_contacts)
            /\ idx' = 1
            /\ pc' = "fetch_companies"
            /\ UNCHANGED result
       ELSE /\ IF outcome = "http_error" THEN Return(Failed(ERR_HUBSPOT_API)) ELSE Raise
            /\ UNCHANGED << dealVars, idx >>
    /\ UNCHANGED << env, suspended, reqVars, parseVars, assocVars, results, transcripts,
                    recVars, genVars, quoteVars, crmVars, posts >>

Company(cid) == [id |-> cid, properties |-> [name |-> "Company " \o cid]]
Contact(cid) == [id |-> cid, properties |-> [email |-> cid \o "@example.com"]]

\* One iteration of the loop of fetch_companies.
FetchCompany(outcome) ==
    /\ pc = "fetch_companies"
    /\ idx <= Len(company_ids)
    /\ log' = Logged("fetch_company", outcome)
    /\ IF outcome = "ok"
       THEN /\ companies' = Append(companies, Company(company_ids[idx]))
            /\ idx' = idx + 1
            /\ UNCHANGED << pc, result >>
       ELSE IF outcome = "http_error"
       THEN /\ idx' = idx + 1
            /\ UNCHANGED << pc, result, companies >>
       ELSE Raise /\ UNCHANGED << companies, idx >>
    /\ UNCHANGED << env, suspended, reqVars, parseVars, dealVars, contacts, company_name, results,
                    transcripts, recVars, genVars, quoteVars, crmVars, posts >>

\* fetch_companies returns.
FetchCompaniesDone ==
    /\ pc = "fetch_companies"
    /\ idx > Len(company_ids)
    /\ pc' = "fetch_contacts"
    /\ idx' = 1
    /\ UNCHANGED << env, suspended, reqVars, parseVars, dealVars, assocVars, results, transcripts,
                    recVars, genVars, quoteVars, crmVars, result, posts, log >>

\* One iteration of the loop of fetch_contacts.
FetchContact(outcome) ==
    /\ pc = "fetch_contacts"
    /\ idx <= Len(contact_ids)
    /\ log' = Logged("fetch_contact", outcome)
    /\ IF outcome = "ok"
       THEN /\ contacts' = Append(contacts, Contact(contact_ids[idx]))
            /\ idx' = idx + 1
            /\ UNCHANGED << pc, result >>
       ELSE IF outcome = "http_error"
       THEN /\ idx' = idx + 1
            /\ UNCHANGED << pc, result, contacts >>
       ELSE Raise /\ UNCHANGED << contacts, idx >>
    /\ UNCHANGED << env, suspended, reqVars, parseVars, dealVars, companies, company_name, results,
                    transcripts, recVars, genVars, quoteVars, crmVars, posts >>

\* fetch_contacts returns; line 321.
FetchContactsDone ==
    /\ pc = "fetch_contacts"
    /\ idx > Len(contact_ids)
    /\ company_name' = IF companies # << >> THEN companies[1].properties.name ELSE deal_name
    /\ pc' = "fetch_meeting_assoc"
    /\ idx' = 0
    /\ UNCHANGED << env, suspended, reqVars, parseVars, dealVars, companies, contacts, results,
                    transcripts, recVars, genVars, quoteVars, crmVars, result, posts, log >>

\* FetchMeetingAssoc with the HTTPError of the listing returned as a failure
\* of the CRM, as fetch_deal's is, instead of giving no transcripts.
FetchMeetingAssoc_ErrorFatal(outcome, res) ==
    /\ pc = "fetch_meeting_assoc"
    /\ log' = Logged("fetch_meeting_assoc", outcome)
    /\ IF outcome = "ok"
       THEN /\ results' = res
            /\ idx' = 1
            /\ pc' = "fetch_meetings"
            /\ UNCHANGED result
       ELSE /\ IF outcome = "http_error" THEN Return(Failed(ERR_HUBSPOT_API)) ELSE Raise
            /\ UNCHANGED << results, idx >>
    /\ UNCHANGED << env, suspended, reqVars, parseVars, dealVars, assocVars, transcripts,
                    recVars, genVars, quoteVars, crmVars, posts >>

\* Lines 118-122: the meetings associated to the deal.
FetchMeetingAssoc(outcome, res) ==
    /\ pc = "fetch_meeting_assoc"
    /\ log' = Logged("fetch_meeting_assoc", outcome)
    /\ IF outcome = "ok"
       THEN /\ results' = res
            /\ idx' = 1
            /\ pc' = "fetch_meetings"
            /\ UNCHANGED result
       ELSE IF outcome = "http_error"
       THEN /\ pc' = "recommend"
            /\ UNCHANGED << results, idx, result >>
       ELSE Raise /\ UNCHANGED << results, idx >>
    /\ UNCHANGED << env, suspended, reqVars, parseVars, dealVars, assocVars, transcripts,
                    recVars, genVars, quoteVars, crmVars, posts >>

HasMarker(notes) ==
    Contains(notes, "AI Meeting Summary") \/ Contains(notes, "Generated by Fathom")

\* Lines 126-128: a result without toObjectId is passed over.
SkipMeeting ==
    /\ pc = "fetch_meetings"
    /\ idx <= Len(results)
    /\ Falsy(results[idx])
    /\ idx' = idx + 1
    /\ UNCHANGED << env, suspended, pc, reqVars, parseVars, dealVars, assocVars, results, transcripts,
                    recVars, genVars, quoteVars, crmVars, result, posts, log >>

\* Lines 129-135: one meeting fetched, its notes kept if they carry a marker.
FetchMeeting(outcome, notes_field) ==
    /\ pc = "fetch_meetings"
    /\ idx <= Len(results)
    /\ ~Falsy(results[idx])
    /\ log' = Logged("fetch_meeting", outcome)
    /\ LET notes == IF Falsy(notes_field) THEN "" ELSE notes_field
       IN  IF outcome = "ok"
           THEN /\ transcripts' = IF HasMarker(notes) THEN Append(transcripts, notes)
                                  ELSE transcripts
                /\ idx' = idx + 1
                /\ UNCHANGED << pc, result >>
           ELSE IF outcome = "http_error"
           THEN /\ idx' = idx + 1
                /\ UNCHANGED << pc, result, transcripts >>
           ELSE Raise /\ UNCHANGED << transcripts, idx >>
    /\ UNCHANGED << env, suspended, reqVars, parseVars, dealVars, assocVars, results,
                    recVars, genVars, quoteVars, crmVars, posts >>

\* fetch_fathom_transcripts returns.
FetchMeetingsDone ==
    /\ pc = "fetch_meetings"
    /\ idx > Len(results)
    /\ pc' = "recommend"
    /\ results' = << >>
    /\ idx' = 0
    /\ UNCHANGED << env, suspended, reqVars, parseVars, dealVars, assocVars, transcripts,
                    recVars, genVars, quoteVars, crmVars, result, posts, log >>

\* Recommend with the total of recommend_services kept for the default service.
Recommend_DefaultTotalKept ==
    /\ pc = "recommend"
    /\ IF transcripts = << >>
       THEN /\ Return(Failed(ERR_NO_TRANSCRIPTS))
            /\ UNCHANGED << recVars, log >>
       ELSE /\ LET rec == recommend_services(transcripts)
               IN  IF rec[1] = << >>
                   THEN services' = << SERVICES[1] >> /\ total' = rec[2]
                   ELSE services' = rec[1] /\ total' = rec[2]
            /\ log' = Logged("recommend", "none")
            /\ pc' = "generate_executive_summary"
            /\ UNCHANGED result
    /\ UNCHANGED << env, suspended, reqVars, parseVars, dealVars, assocVars, results, idx, transcripts,
                    genVars, quoteVars, crmVars, posts >>

\* Recommend with a default service from the low end of the catalog.
Recommend_DefaultLowTier ==
    /\ pc = "recommend"
    /\ IF transcripts = << >>
       THEN /\ Return(Failed(ERR_NO_TRANSCRIPTS))
            /\ UNCHANGED << recVars, log >>
       ELSE /\ LET rec == recommend_services(transcripts)
               IN  IF rec[1] = << >>
                   THEN services' = << SERVICES[4] >> /\ total' = 1500
                   ELSE services' = rec[1] /\ total' = rec[2]
            /\ log' = Logged("recommend", "none")
            /\ pc' = "generate_executive_summary"
            /\ UNCHANGED result
    /\ UNCHANGED << env, suspended, reqVars, parseVars, dealVars, assocVars, results, idx, transcripts,
                    genVars, quoteVars, crmVars, posts >>

\* Lines 324-332: the transcripts must not be empty; recommend_services and
\* the default service.
Recommend ==
    /\ pc = "recommend"
    /\ IF transcripts = << >>
       THEN /\ Return(Failed(ERR_NO_TRANSCRIPTS))
            /\ UNCHANGED << recVars, log >>
       ELSE /\ LET rec == recommend_services(transcripts)
               IN  IF rec[1] = << >>
                   THEN services' = << SERVICES[1] >> /\ total' = 3000
                   ELSE services' = rec[1] /\ total' = rec[2]
            /\ log' = Logged("recommend", "none")
            /\ pc' = "generate_executive_summary"
            /\ UNCHANGED result
    /\ UNCHANGED << env, suspended, reqVars, parseVars, dealVars, assocVars, results, idx, transcripts,
                    genVars, quoteVars, crmVars, posts >>

\* Line 335: generate_executive_summary.
GenerateExecutiveSummary(outcome, html) ==
    /\ pc = "generate_executive_summary"
    /\ log' = Logged("generate_executive_summary", outcome)
    /\ IF outcome = "ok"
       THEN /\ exec_summary' = strip(html)
            /\ pc' = "generate_90_day_preview"
            /\ UNCHANGED result
       ELSE /\ IF outcome = "http_error" THEN Return(Failed(ERR_CLAUDE_API)) ELSE Raise
            /\ UNCHANGED exec_summary
    /\ UNCHANGED << env, suspended, reqVars, parseVars, dealVars, assocVars, results, idx, transcripts,
                    recVars, preview, quoteVars, crmVars, posts >>

\* Generate90DayPreview with the HTTPError of the call swallowed: the run
\* goes on to the quote without a preview.
Generate90DayPreview_ErrorSwallowed(outcome, html) ==
    /\ pc = "generate_90_day_preview"
    /\ log' = Logged("generate_90_day_preview", outcome)
    /\ IF outcome = "ok"
       THEN /\ preview' = strip(html)
            /\ pc' = "fetch_products"
            /\ UNCHANGED result
       ELSE IF outcome = "http_error"
       THEN /\ preview' = ""
            /\ pc' = "fetch_products"
            /\ UNCHANGED result
       ELSE /\ Raise
            /\ UNCHANGED preview
    /\ UNCHANGED << env, suspended, reqVars, parseVars, dealVars, assocVars, results, idx, transcripts,
                    recVars, exec_summary, quoteVars, crmVars, posts >>

\* Line 336: generate_90_day_preview.
Generate90DayPreview(outcome, html) ==
    /\ pc = "generate_90_day_preview"
    /\ log' = Logged("generate_90_day_preview", outcome)
    /\ IF outcome = "ok"
       THEN /\ preview' = strip(html)
            /\ pc' = "fetch_products"
            /\ UNCHANGED result
       ELSE /\ IF outcome = "http_error" THEN Return(Failed(ERR_CLAUDE_API)) ELSE Raise
            /\ UNCHANGED preview
    /\ UNCHANGED << env, suspended, reqVars, parseVars, dealVars, assocVars, results, idx, transcripts,
                    recVars, exec_summary, quoteVars, crmVars, posts >>

\* fetch_products: sku -> id of the last product that carries the sku.
sku_to_id_of(prods) ==
    LET skus == { prods[i].hs_sku : i \in DOMAIN prods } \ {NoValue, ""}
        Last(sku) == CHOOSE i \in DOMAIN prods :
                        /\ prods[i].hs_sku = sku
                        /\ \A j \in DOMAIN prods : prods[j].hs_sku = sku => j <= i
    IN  [sku \in skus |-> prods[Last(sku)].id]

\* Line 245: fetch_products, inside the try of lines 340-346.
FetchProducts(outcome, prods) ==
    /\ pc = "fetch_products"
    /\ log' = Logged("fetch_products", outcome)
    /\ IF outcome = "ok"
       THEN /\ sku_to_id' = sku_to_id_of(prods)
            /\ pc' = "create_quote"
            /\ UNCHANGED result
       ELSE /\ IF outcome = "http_error" THEN Return(Failed(ERR_QUOTE)) ELSE Raise
            /\ UNCHANGED sku_to_id
    /\ UNCHANGED << env, suspended, reqVars, parseVars, dealVars, assocVars, results, idx, transcripts,
                    recVars, genVars, quote_id, line_item_id, crmVars, posts >>

QuoteIds == {"9001"}

\* CreateQuote with the HTTPError of the quote creation swallowed: the run
\* goes on to the line items without a quote.
CreateQuote_ErrorSwallowed(outcome, new_id) ==
    /\ pc = "create_quote"
    /\ new_id \notin { q.id : q \in crm_quotes }
    /\ log' = Logged("create_quote", outcome)
    /\ IF outcome = "ok"
       THEN /\ crm_quotes' = crm_quotes \cup
                   { [ id |-> new_id,
                       hs_title |-> "CGO in a Box Proposal - " \o company_name,
                       hs_status |-> "DRAFT",
                       hs_comments |-> exec_summary,
                       cgo_90_day_preview |-> preview,
                       deal |-> deal_id ] }
            /\ quote_id' = new_id
            /\ idx' = 1
            /\ pc' = "line_items"
            /\ UNCHANGED result
       ELSE IF outcome = "http_error"
       THEN /\ idx' = 1
            /\ pc' = "line_items"
            /\ UNCHANGED << crm_quotes, quote_id, result >>
       ELSE /\ Raise
            /\ UNCHANGED << crm_quotes, quote_id, idx >>
    /\ UNCHANGED << env, suspended, reqVars, parseVars, dealVars, assocVars, results, transcripts,
                    recVars, genVars, sku_to_id, line_item_id, crm_line_items, posts >>

\* CreateQuote with the quote a run made for the deal before taken again
\* instead of a new one created.
CreateQuote_ReusesQuoteOfDeal(outcome, new_id) ==
    /\ pc = "create_quote"
    /\ new_id \notin { q.id : q \in crm_quotes }
    /\ log' = Logged("create_quote", outcome)
    /\ IF outcome = "ok"
       THEN /\ IF \E q \in crm_quotes : q.deal = deal_id
               THEN /\ quote_id' = (CHOOSE q \in crm_quotes : q.deal = deal_id).id
                    /\ UNCHANGED crm_quotes
               ELSE /\ crm_quotes' = crm_quotes \cup
                           { [ id |-> new_id,
                               hs_title |-> "CGO in a Box Proposal - " \o company_name,
                               hs_status |-> "DRAFT",
                               hs_comments |-> exec_summary,
                               cgo_90_day_preview |-> preview,
                               deal |-> deal_id ] }
                    /\ quote_id' = new_id
            /\ idx' = 1
            /\ pc' = "line_items"
            /\ UNCHANGED result
       ELSE /\ IF outcome = "http_error" THEN Return(Failed(ERR_QUOTE)) ELSE Raise
            /\ UNCHANGED << crm_quotes, quote_id, idx >>
    /\ UNCHANGED << env, suspended, reqVars, parseVars, dealVars, assocVars, results, transcripts,
                    recVars, genVars, sku_to_id, line_item_id, crm_line_items, posts >>

\* Lines 252-267: the quote is created and associated to the deal.
CreateQuote(outcome, new_id) ==
    /\ pc = "create_quote"
    /\ new_id \notin { q.id : q \in crm_quotes }
    /\ log' = Logged("create_quote", outcome)
    /\ IF outcome = "ok"
       THEN /\ crm_quotes' = crm_quotes \cup
                   { [ id |-> new_id,
                       hs_title |-> "CGO in a Box Proposal - " \o company_name,
                       hs_status |-> "DRAFT",
                       hs_comments |-> exec_summary,
                       cgo_90_day_preview |-> preview,
                       deal |-> deal_id ] }
            /\ quote_id' = new_id
            /\ idx' = 1
            /\ pc' = "line_items"
            /\ UNCHANGED result
       ELSE /\ IF outcome = "http_error" THEN Return(Failed(ERR_QUOTE)) ELSE Raise
            /\ UNCHANGED << crm_quotes, quote_id, idx >>
    /\ UNCHANGED << env, suspended, reqVars, parseVars, dealVars, assocVars, results, transcripts,
                    recVars, genVars, sku_to_id, line_item_id, crm_line_items, posts >>

\* SkipLineItem with a service without a product id treated as a failure of
\* the quote assembly.
SkipLineItem_Fatal ==
    /\ pc = "line_items"
    /\ idx <= Len(services)
    /\ services[idx].sku \notin DOMAIN sku_to_id
    /\ Return(Failed(ERR_QUOTE))
    /\ UNCHANGED << env, suspended, reqVars, parseVars, dealVars, assocVars, results, idx, transcripts,
                    recVars, genVars, quoteVars, crmVars, posts, log >>

\* Lines 270-272: a service without a product id is passed over.
SkipLineItem ==
    /\ pc = "line_items"
    /\ idx <= Len(services)
    /\ services[idx].sku \notin DOMAIN sku_to_id
    /\ idx' = idx + 1
    /\ UNCHANGED << env, suspended, pc, reqVars, parseVars, dealVars, assocVars, results, transcripts,
                    recVars, genVars, quoteVars, crmVars, result, posts, log >>

LineItemId(n) == "li" \o ToString(n)

\* Lines 273-282: the line item of services[idx] is created.
CreateLineItem(outcome) ==
    /\ pc = "line_items"
    /\ idx <= Len(services)
    /\ services[idx].sku \in DOMAIN sku_to_id
    /\ log' = Logged("create_line_item", outcome)
    /\ IF outcome = "ok"
       THEN /\ line_item_id' = LineItemId(Cardinality(crm_line_items) + 1)
            /\ crm_line_items' = crm_line_items \cup
                   { [ id |-> line_item_id',
                       hs_product_id |-> sku_to_id[services[idx].sku],
                       quantity |-> 1,
                       price |-> ToString(services[idx].price),
                       name |-> services[idx].name,
                       quote |-> NoValue ] }
            /\ pc' = "associate_line_item"
            /\ UNCHANGED result
       ELSE /\ IF outcome = "http_error" THEN Return(Failed(ERR_QUOTE)) ELSE Raise
            /\ UNCHANGED << line_item_id, crm_line_items >>
    /\ UNCHANGED << env, suspended, reqVars, parseVars, dealVars, assocVars, results, idx, transcripts,
                    recVars, genVars, sku_to_id, quote_id, crm_quotes, posts >>

\* Line 283: the line item is associated to the quote.
AssociateLineItem(outcome) ==
    /\ pc = "associate_line_item"
    /\ log' = Logged("associate_line_item", outcome)
    /\ IF outcome = "ok"
       THEN /\ crm_line_items' =
                   { IF li.id = line_item_id THEN [li EXCEPT !.quote = quote_id] ELSE li :
                       li \in crm_line_items }
            /\ idx' = idx + 1
            /\ pc' = "line_items"
            /\ UNCHANGED result
       ELSE /\ IF outcome = "http_error" THEN Return(Failed(ERR_QUOTE)) ELSE Raise
            /\ UNCHANGED << crm_line_items, idx >>
    /\ UNCHANGED << env, suspended, reqVars, parseVars, dealVars, assocVars, results, transcripts,
                    recVars, genVars, quoteVars, crm_quotes, posts >>

quote_url_of(portal_id, qid) ==
    "https://app.hubspot.com/contacts/" \o portal_id \o "/record/0-115/" \o qid

\* ReturnSuccess with the result naming only the services that got a line
\* item.
ReturnSuccess_LineItemsOnly ==
    /\ pc = "line_items"
    /\ idx > Len(services)
    /\ LET created == SelectSeq(services, LAMBDA svc : svc.sku \in DOMAIN sku_to_id)
       IN  Return([ success |-> TRUE,
                    quote_url |-> quote_url_of(env.HUBSPOT_PORTAL_ID, quote_id),
                    company_name |-> company_name,
                    total_monthly |-> total,
                    services |-> [i \in DOMAIN created |-> created[i].name] ])
    /\ UNCHANGED << env, suspended, reqVars, parseVars, dealVars, assocVars, results, idx, transcripts,
                    recVars, genVars, quoteVars, crmVars, posts, log >>

\* Lines 285 and 348-354: the quote url and the successful result.
ReturnSuccess ==
    /\ pc = "line_items"
    /\ idx > Len(services)
    /\ Return([ success |-> TRUE,
                quote_url |-> quote_url_of(env.HUBSPOT_PORTAL_ID, quote_id),
                company_name |-> company_name,
                total_monthly |-> total,
                services |-> [i \in DOMAIN services |-> services[i].name] ])
    /\ UNCHANGED << env, suspended, reqVars, parseVars, dealVars, assocVars, results, idx, transcripts,
                    recVars, genVars, quoteVars, crmVars, posts, log >>

(***************************************************************************)
(* handle_slash_command.run_and_post, after run_workflow returned.         *)
(***************************************************************************)
PostResult ==
    /\ pc = "returned"
    /\ LET r == result[Len(result)]
       IN  posts' = Append(posts,
                IF r.success
                THEN [fn |-> "post_success", response_url |-> response_url, payload |-> r]
                ELSE [fn |-> "post_error", response_url |-> response_url, payload |-> r])
    /\ pc' = "done"
    /\ UNCHANGED << env, suspended, reqVars, parseVars, dealVars, assocVars, results, idx, transcripts,
                    recVars, genVars, quoteVars, crmVars, result, log >>

Next ==
    \/ \E k \in SignatureKeys, u \in ResponseUrls, t \in CommandTexts : SlackRequest(k, u, t)
    \/ Preconditions
    \/ \E o \in Outcomes, d \in DealNames, n, m \in 0..MaxAssociations :
          n + m <= MaxAssociations /\ FetchDeal(o, d, n, m)
    \/ \E o \in Outcomes : FetchCompany(o)
    \/ FetchCompaniesDone
    \/ \E o \in Outcomes : FetchContact(o)
    \/ FetchContactsDone
    \/ \E o \in Outcomes, r \in MeetingAssocResults : FetchMeetingAssoc(o, r)
    \/ SkipMeeting
    \/ \E o \in Outcomes, t \in NoteTexts : FetchMeeting(o, t)
    \/ FetchMeetingsDone
    \/ Recommend
    \/ \E o \in Outcomes, h \in HtmlTexts : GenerateExecutiveSummary(o, h)
    \/ \E o \in Outcomes, h \in HtmlTexts : Generate90DayPreview(o, h)
    \/ \E o \in Outcomes, p \in ProductResults : FetchProducts(o, p)
    \/ \E o \in Outcomes, q \in QuoteIds : CreateQuote(o, q)
    \/ SkipLineItem
    \/ \E o \in Outcomes : CreateLineItem(o)
    \/ \E o \in Outcomes : AssociateLineItem(o)
    \/ ReturnSuccess
    \/ PostResult

Spec == Init /\ [][Next]_vars

(***************************************************************************)
(* The recommendation engine on its own: transcript sets drawn from        *)
(* RecTexts, recommend_services applied to them.                           *)
(***************************************************************************)
RecTexts ==
    { "",
      "Budget review only",
      "Our CRM is fine",
      "CRM Reporting is weak",
      "PIPELINE stalls",
      "Pipeline and Quota slip",
      "abm plus Campaigns",
      "Clay for contacts",
      "Spam hurts Outreach",
      "social selling",
      "LinkedIn Outreach plan",
      "crm, pipeline, abm",
      "crm pipeline abm clay spam inmail" }

SeqsUpTo(S, n) == UNION { [1..k -> S] : k \in 0..n }

InitRec ==
    /\ env = [ HUBSPOT_API_KEY |-> NoValue, HUBSPOT_PORTAL_ID |-> NoValue,
               ANTHROPIC_API_KEY |-> NoValue, SLACK_SIGNING_SECRET |-> NoValue ]
    /\ pc = "recommend_services"
    /\ request = NoRequest
    /\ transcripts \in SeqsUpTo(RecTexts, MaxTranscripts)
    /\ suspended = {}
    /\ Blank

\* recommend_services(transcripts).
RecApply ==
    /\ pc = "recommend_services"
    /\ services' = recommend_services(transcripts)[1]
    /\ total' = recommend_services(transcripts)[2]
    /\ pc' = "recommended"
    /\ UNCHANGED << env, suspended, reqVars, parseVars, dealVars, assocVars, results, idx, transcripts,
                    genVars, quoteVars, crmVars, result, posts, log >>

NextRec == RecApply

SpecRec == InitRec /\ [][NextRec]_vars

(***************************************************************************)
(* The parsers on their own: a text made of a deal path, well formed or    *)
(* not, between other text, handed to parse_deal_url as it is, or as the   *)
(* command text of /cgo-proposal.                                          *)
(***************************************************************************)
IdChars == {"1", "2"}

\* The strings of at most n characters of IdChars, the empty one included.
RECURSIVE DigitStrings(_)
DigitStrings(n) ==
    IF n = 0 THEN {""}
    ELSE LET shorter == DigitStrings(n - 1)
         IN  shorter \cup { s \o c : s \in { x \in shorter : Len(x) = n - 1 }, c \in IdChars }

PathIds == DigitStrings(MaxIdLen)
ObjectTypes == {"0-3", "0-2"}
TextBefore ==
    { "", "deal: ", "https://app.hubspot.com/", "quote for https://app.hubspot.com/",
      "see contacts/9/record/0-3/8 and https://app.hubspot.com/" }
TextAfter ==
    { "", " please", "0", "/edit", " or https://app.hubspot.com/contacts/3/record/0-3/5" }

ParseTexts ==
    { before \o "contacts/" \o tenant \o "/record/" \o type \o "/" \o deal \o after :
        before \in TextBefore, tenant \in PathIds, type \in ObjectTypes,
        deal \in PathIds, after \in TextAfter }
    \cup { "", "   ", " deal 42 " }

InitParse ==
    /\ env = [ HUBSPOT_API_KEY |-> NoValue, HUBSPOT_PORTAL_ID |-> NoValue,
               ANTHROPIC_API_KEY |-> NoValue, SLACK_SIGNING_SECRET |-> NoValue ]
    /\ pc = "parse"
    /\ request \in { [signature_key |-> "s3cret",
                       response_url |-> "https://hooks.slack.com/commands/r1",
                       text |-> t] : t \in ParseTexts }
    /\ transcripts = << >>
    /\ suspended = {}
    /\ Blank

\* parse_deal_url(url) and the unpacking of line 304.
Parsed(url) ==
    LET parsed == parse_deal_url(url)
    IN  /\ deal_url' = url
        /\ url_portal' = IF parsed = << >> THEN NoValue ELSE parsed[1]
        /\ deal_id' = IF parsed = << >> THEN NoValue ELSE parsed[2]

\* The text handed to parse_deal_url as it is.
ParseDealUrl ==
    /\ pc = "parse"
    /\ Parsed(request.text)
    /\ pc' = "parsed_url"
    /\ UNCHANGED << env, suspended, request, http_response, response_url, dealVars, assocVars, results,
                    idx, transcripts, recVars, genVars, quoteVars, crmVars, result, posts, log >>

\* The text as the command text: parse_deal_url_from_text (app.py), the `or ""`
\* and the strip of handle_slash_command, then parse_deal_url.
ParseCommandText ==
    /\ pc = "parse"
    /\ LET parsed_text == parse_deal_url_from_text(request.text)
           arg == IF parsed_text = NoValue THEN "" ELSE parsed_text
       IN  Parsed(strip(arg))
    /\ pc' = "parsed_text"
    /\ UNCHANGED << env, suspended, request, http_response, response_url, dealVars, assocVars, results,
                    idx, transcripts, recVars, genVars, quoteVars, crmVars, result, posts, log >>

NextParse == ParseDealUrl \/ ParseCommandText

SpecParse == InitParse /\ [][NextParse]_vars

(***************************************************************************)
(* Several requests: handle_slash_command starts one daemon thread for     *)
(* each accepted request and returns, so the server takes the next request *)
(* while the threads of the earlier ones run.  The variables hold the      *)
(* frame of the thread that runs now, `suspended` the frames of the        *)
(* others; os.environ and the CRM are what the threads share.              *)
(***************************************************************************)
\* The locals of slack_cgo_proposal, run_and_post and run_workflow of the
\* thread that runs now.
Frame ==
    [ pc |-> pc, request |-> request, http_response |-> http_response,
      response_url |-> response_url, deal_url |-> deal_url,
      url_portal |-> url_portal, deal_id |-> deal_id, deal_name |-> deal_name,
      company_ids |-> company_ids, contact_ids |-> contact_ids,
      companies |-> companies, contacts |-> contacts,
      company_name |-> company_name, results |-> results, idx |-> idx,
      transcripts |-> transcripts, services |-> services, total |-> total,
      exec_summary |-> exec_summary, preview |-> preview,
      sku_to_id |-> sku_to_id, quote_id |-> quote_id,
      line_item_id |-> line_item_id, result |-> result, posts |-> posts,
      log |-> log ]

\* The frame of a request that has not been read yet.
NewFrame ==
    [ pc |-> "idle", request |-> NoRequest, http_response |-> NoValue,
      response_url |-> NoValue, deal_url |-> NoValue,
      url_portal |-> NoValue, deal_id |-> NoValue, deal_name |-> NoValue,
      company_ids |-> << >>, contact_ids |-> << >>,
      companies |-> << >>, contacts |-> << >>,
      company_name |-> NoValue, results |-> << >>, idx |-> 0,
      transcripts |-> << >>, services |-> << >>, total |-> 0,
      exec_summary |-> NoValue, preview |-> NoValue,
      sku_to_id |-> << >>, quote_id |-> NoValue,
      line_item_id |-> NoValue, result |-> << >>, posts |-> << >>,
      log |-> << >> ]

\* The thread of frame f runs next.
Resume(f) ==
    /\ pc' = f.pc
    /\ request' = f.request
    /\ http_response' = f.http_response
    /\ response_url' = f.response_url
    /\ deal_url' = f.deal_url
    /\ url_portal' = f.url_portal
    /\ deal_id' = f.deal_id
    /\ deal_name' = f.deal_name
    /\ company_ids' = f.company_ids
    /\ contact_ids' = f.contact_ids
    /\ companies' = f.companies
    /\ contacts' = f.contacts
    /\ company_name' = f.company_name
    /\ results' = f.results
    /\ idx' = f.idx
    /\ transcripts' = f.transcripts
    /\ services' = f.services
    /\ total' = f.total
    /\ exec_summary' = f.exec_summary
    /\ preview' = f.preview
    /\ sku_to_id' = f.sku_to_id
    /\ quote_id' = f.quote_id
    /\ line_item_id' = f.line_item_id
    /\ result' = f.result
    /\ posts' = f.posts
    /\ log' = f.log

Ended(f) == f.pc \in {"rejected", "raised", "done"}

\* The interpreter switches from the running thread to one that has not
\* ended; the frame of the thread left is kept.
Switch(f) ==
    /\ f \in suspended
    /\ ~Ended(f)
    /\ suspended' = (suspended \ {f}) \cup {Frame}
    /\ Resume(f)
    /\ UNCHANGED << env, crmVars >>

\* The response_url Slack gives each command, in the order of arrival.
ThreadResponseUrls ==
    << "https://hooks.slack.com/commands/r1", "https://hooks.slack.com/commands/r2" >>

\* The server takes the next request, the threads started stay as they are.
Accept ==
    /\ pc # "idle"
    /\ Cardinality(suspended) + 1 < Len(ThreadResponseUrls)
    /\ suspended' = suspended \cup {Frame}
    /\ Resume(NewFrame)
    /\ UNCHANGED << env, crmVars >>

ThreadTexts ==
    { "https://app.hubspot.com/contacts/1/record/0-3/42",
      "https://app.hubspot.com/contacts/1/record/0-3/43" }
ThreadOutcomes == {"ok", "http_error", "timeout"}
\* What the CRM holds: the name of each deal, one meeting with a summary
\* that names no service, the products of the catalog.
DealNameOf(id) == "Deal " \o id
ThreadNotes == "AI Meeting Summary: budget only"
ThreadProducts == [i \in 1..Len(SERVICES) |-> Product(SERVICES[i].sku)]
\* The id the CRM gives the next quote.
NextQuoteId == "900" \o ToString(Cardinality(crm_quotes) + 1)

InitThreads ==
    /\ env = [ HUBSPOT_API_KEY |-> "pat-na1", HUBSPOT_PORTAL_ID |-> "1",
               ANTHROPIC_API_KEY |-> "sk-ant", SLACK_SIGNING_SECRET |-> "s3cret" ]
    /\ pc = "idle"
    /\ request = NoRequest
    /\ transcripts = << >>
    /\ suspended = {}
    /\ Blank

NextThreads ==
    \/ Accept
    \/ \E f \in suspended : Switch(f)
    \/ \E t \in ThreadTexts :
          SlackRequest("s3cret", ThreadResponseUrls[Cardinality(suspended) + 1], t)
    \/ Preconditions
    \/ \E o \in ThreadOutcomes : FetchDeal(o, DealNameOf(deal_id), 0, 0)
    \/ FetchCompaniesDone
    \/ FetchContactsDone
    \/ \E o \in ThreadOutcomes : FetchMeetingAssoc(o, << MeetingId(1) >>)
    \/ \E o \in ThreadOutcomes : FetchMeeting(o, ThreadNotes)
    \/ FetchMeetingsDone
    \/ Recommend
    \/ \E o \in ThreadOutcomes, h \in HtmlTexts : GenerateExecutiveSummary(o, h)
    \/ \E o \in ThreadOutcomes, h \in HtmlTexts : Generate90DayPreview(o, h)
    \/ \E o \in ThreadOutcomes : FetchProducts(o, ThreadProducts)
    \/ \E o \in ThreadOutcomes : CreateQuote(o, NextQuoteId)
    \/ \E o \in ThreadOutcomes : CreateLineItem(o)
    \/ \E o \in ThreadOutcomes : AssociateLineItem(o)
    \/ ReturnSuccess
    \/ PostResult

SpecThreads == InitThreads /\ [][NextThreads]_vars

(***************************************************************************)
(* Vocabulary of the properties.                                           *)
(***************************************************************************)
HasPrefix(s, prefix) == Len(s) >= Len(prefix) /\ SubSeq(s, 1, Len(prefix)) = prefix

\* The error taxonomy of a Failed result, by the return statement it comes from.
Classification(r) ==
    IF r.success THEN "Success"
    ELSE IF r.error \in {ERR_HUBSPOT_CONFIG, ERR_ANTHROPIC_CONFIG} THEN "ConfigurationError"
    ELSE IF r.error = ERR_INVALID_URL \/ HasPrefix(r.error, "Deal URL portal ")
         THEN "ValidationError"
    ELSE IF r.error = ERR_NO_TRANSCRIPTS THEN "PreconditionFailed"
    ELSE IF r.error \in {ERR_HUBSPOT_API, ERR_CLAUDE_API, ERR_QUOTE} THEN "UpstreamError"
    ELSE "Unclassified"

\* Steps of the run that call nothing.
LocalSteps == {"parse", "recommend"}
IsCall(e) == e.call \notin LocalSteps
\* The CRM and narrative-generation calls the run made, in order.
Calls == SelectSeq(log, IsCall)

\* The background thread has ended.
ThreadEnded == pc \in {"done", "raised"}
\* run_workflow has returned a result.
Returned == pc \in {"returned", "done"}

ConfigComplete ==
    /\ ~Falsy(env.HUBSPOT_API_KEY)
    /\ ~Falsy(env.HUBSPOT_PORTAL_ID)
    /\ ~Falsy(env.ANTHROPIC_API_KEY)

(***************************************************************************)
(* C1: every started run ends with exactly one WorkflowResult, delivered   *)
(* exactly once by one post_success or post_error, however its calls end.  *)
(* Stated on the ended thread: one result, one post, the post carrying the *)
(* result.                                                                 *)
(***************************************************************************)
C1_OneResultDeliveredOnce ==
    /\ Len(result) <= 1
    /\ Len(posts) <= 1
    /\ ThreadEnded =>
          /\ Len(result) = 1
          /\ Len(posts) = 1
          /\ posts[1].payload = result[1]
          /\ posts[1].fn = IF result[1].success THEN "post_success" ELSE "post_error"

(***************************************************************************)
(* C2: the phases run in the fixed forward order Parse, FetchDeal,         *)
(* FetchAssociations (companies, then contacts), FetchTranscripts,         *)
(* Recommend, GenerateNarrative (summary, then preview), AssembleQuote;    *)
(* each fatal call is attempted at most once; a failed fatal call is the   *)
(* last call of the run, and a Failed result is returned with no call of a *)
(* phase later than the one that failed.                                   *)
(***************************************************************************)
PhaseRank(call) ==
    CASE call = "parse" -> 1
      [] call = "fetch_deal" -> 2
      [] call = "fetch_company" -> 3
      [] call = "fetch_contact" -> 4
      [] call = "fetch_meeting_assoc" -> 5
      [] call = "fetch_meeting" -> 6
      [] call = "recommend" -> 7
      [] call = "generate_executive_summary" -> 8
      [] call = "generate_90_day_preview" -> 9
      [] call = "fetch_products" -> 10
      [] call = "create_quote" -> 11
      [] call \in {"create_line_item", "associate_line_item"} -> 12

FatalCalls ==
    {"fetch_deal", "generate_executive_summary", "generate_90_day_preview", "create_quote"}

\* The steps every run that gets as far as rank r has taken before.
MandatoryBefore(r) ==
    { c \in {"parse", "fetch_deal", "fetch_meeting_assoc", "recommend",
             "generate_executive_summary", "generate_90_day_preview",
             "fetch_products", "create_quote"} : PhaseRank(c) < r }

CountOf(call) == Cardinality({ i \in DOMAIN log : log[i].call = call })

\* The highest rank a run that returned this Failed result may have reached.
LastRankOf(r) ==
    IF Classification(r) = "ConfigurationError" THEN 0
    ELSE IF Classification(r) = "ValidationError" THEN 1
    ELSE IF r.error = ERR_HUBSPOT_API THEN 2
    ELSE IF r.error = ERR_NO_TRANSCRIPTS THEN 6
    ELSE IF r.error = ERR_CLAUDE_API THEN 9
    ELSE 12

C2_PhasesInOrder ==
    /\ \A i, j \in DOMAIN log : i < j => PhaseRank(log[i].call) <= PhaseRank(log[j].call)
    /\ \A i \in DOMAIN log :
          \A c \in MandatoryBefore(PhaseRank(log[i].call)) :
             \E j \in 1..(i - 1) : log[j].call = c
    /\ \A c \in FatalCalls : CountOf(c) <= 1
    /\ \A i \in DOMAIN log :
          (log[i].call \in FatalCalls /\ log[i].outcome # "ok") => i = Len(log)
    /\ \A k \in DOMAIN result :
          ~result[k].success =>
             \A i \in DOMAIN log : PhaseRank(log[i].call) <= LastRankOf(result[k])

\* A run whose preview generation failed: every earlier phase ran, none later.
C2_Witness ==
    /\ Returned
    /\ ~result[1].success
    /\ log # << >>
    /\ log[Len(log)] = [call |-> "generate_90_day_preview", outcome |-> "http_error"]
    /\ CountOf("fetch_company") = 2

(***************************************************************************)
(* C3: in the quote-assembly phase only the failure of the quote creation  *)
(* is fatal: when the product lookup or the creation or association of a   *)
(* line item fails, the run still ends in Success.                         *)
(***************************************************************************)
TolerableQuoteCalls == {"fetch_products", "create_line_item", "associate_line_item"}

C3_OnlyQuoteCreationFatal ==
    (/\ Returned
     /\ \E i \in DOMAIN log :
           log[i].call \in TolerableQuoteCalls /\ log[i].outcome = "http_error")
    => result[1].success

(***************************************************************************)
(* Properties of the recommendation engine, under SpecRec.                 *)
(***************************************************************************)
Range(f) == { f[i] : i \in DOMAIN f }
NonBundleSkus == { s.sku : s \in Range(SERVICES) } \ {"CGO-BUNDLE"}
Entry(sku) == CHOOSE s \in Range(SERVICES) : s.sku = sku
BundleEntry == Entry("CGO-BUNDLE")

RECURSIVE SumOfPrices(_)
SumOfPrices(skus) ==
    IF skus = {} THEN 0
    ELSE LET k == CHOOSE x \in skus : TRUE
         IN  Entry(k).price + SumOfPrices(skus \ {k})

\* The indicator phrases of a sku that occur in a transcript, whatever its case.
HitCount(sku, text) ==
    Cardinality({ i \in DOMAIN PAIN_POINT_MAP[sku] :
                    Contains(lower(text), PAIN_POINT_MAP[sku][i]) })

Recommended == pc = "recommended"

(***************************************************************************)
(* C4: a sku qualifies for a transcript only if at least 2 of its          *)
(* indicator phrases occur in it; 1 occurrence never qualifies.            *)
(***************************************************************************)
C4_TwoHitsToQualify ==
    Recommended =>
       \A i \in DOMAIN transcripts :
          \A sku \in recommend_from_transcript(transcripts[i]) :
             HitCount(sku, transcripts[i]) >= 2

(***************************************************************************)
(* C5: with S the union over the transcripts of the qualifying skus: the   *)
(* bundle sku is never in S; if S has 4 or more members the result is the  *)
(* bundle entry alone with the bundle's price, 12000, as total; if S has   *)
(* 1 to 3 members the result is the catalog entries of S, each once, with  *)
(* the sum of their prices as total.                                       *)
(***************************************************************************)
C5_SelectionRule ==
    Recommended =>
       LET S == all_skus_of(transcripts)
       IN  /\ S \subseteq NonBundleSkus
           /\ Cardinality(S) >= 4 =>
                 /\ services = << BundleEntry >>
                 /\ total = 12000
                 /\ total = BundleEntry.price
           /\ Cardinality(S) \in 1..3 =>
                 /\ Len(services) = Cardinality(S)
                 /\ Range(services) = { Entry(k) : k \in S }
                 /\ total = SumOfPrices(S)

\* Exactly 4 skus qualify, over two transcripts: the override fires.
C5_Witness ==
    /\ Recommended
    /\ Len(transcripts) = 2
    /\ Cardinality(all_skus_of(transcripts)) = 4
    /\ services = << BundleEntry >>

(***************************************************************************)
(* C6, as claimed: whenever the bundle override fires, the bundle's price  *)
(* is lower than the sum of the prices of the qualifying entries it        *)
(* replaces.                                                               *)
(***************************************************************************)
C6_BundleCheaperThanParts ==
    (Recommended /\ Cardinality(all_skus_of(transcripts)) >= 4)
    => total < SumOfPrices(all_skus_of(transcripts))

(***************************************************************************)
(* C6, amended: whenever the bundle override fires, the total is the       *)
(* bundle's price, and for the sets of 4, 5 or 6 non-bundle skus of the    *)
(* catalog that price is lower than the sum of the set's prices exactly    *)
(* for the set of all 6; for every set of 4 or 5 it is higher.             *)
(***************************************************************************)
C6_BundleCheaperOnlyThanAllSix ==
    (Recommended /\ Cardinality(all_skus_of(transcripts)) >= 4)
    => /\ total = BundleEntry.price
       /\ \A Q \in SUBSET NonBundleSkus :
             Cardinality(Q) >= 4 => (total < SumOfPrices(Q) <=> Q = NonBundleSkus)
       /\ (total < SumOfPrices(all_skus_of(transcripts)))
             <=> (all_skus_of(transcripts) = NonBundleSkus)

\* The override fires for 5 qualifying skus and raises the price.
C6_Witness ==
    /\ Recommended
    /\ Cardinality(all_skus_of(transcripts)) = 5
    /\ total > SumOfPrices(all_skus_of(transcripts))

(***************************************************************************)
(* Properties of a run, under Spec.                                        *)
(***************************************************************************)
\* The skus that qualify for each transcript a meeting can carry.
QualifyingOfNote ==
    [t \in NoteTexts \ {NoValue} |-> recommend_from_transcript(t)]
\* The union over the transcripts of the run of the qualifying skus.
QualifyingSkus == UNION { QualifyingOfNote[transcripts[i]] : i \in DOMAIN transcripts }

NamesOf(svcs) == [i \in DOMAIN svcs |-> svcs[i].name]

\* recommend_services has run and selected something.
Selected == services # << >>

\* r carries the url of the one quote this run created, under the configured tenant.
QuoteUrlOfThisRun(r) ==
    \E q \in crm_quotes :
       /\ crm_quotes = {q}
       /\ q.id = quote_id
       /\ q.deal = deal_id
       /\ r.quote_url = "https://app.hubspot.com/contacts/" \o env.HUBSPOT_PORTAL_ID
                           \o "/record/0-115/" \o q.id

(***************************************************************************)
(* C7, as claimed: when the qualifying skus are exactly the CRM and the    *)
(* sales-operations skus, the selected services and the serviceNames of    *)
(* the successful result are CRM Management, then Sales Operations         *)
(* Consulting, the total is 5000 and the quote url is                      *)
(* .../contacts/{tenant}/record/0-115/{id of the quote of this run}.       *)
(***************************************************************************)
C7_CrmThenSalesOps ==
    (Selected /\ QualifyingSkus = {"CGO-CRM", "CGO-SALESOPS"}) =>
       /\ NamesOf(services) = << "CRM Management", "Sales Operations Consulting" >>
       /\ total = 5000
       /\ \A k \in DOMAIN result :
             result[k].success =>
                /\ result[k].services = << "CRM Management", "Sales Operations Consulting" >>
                /\ result[k].total_monthly = 5000
                /\ QuoteUrlOfThisRun(result[k])

(***************************************************************************)
(* C7, amended: the same, with the services in the order of the catalog:   *)
(* Sales Operations Consulting, then CRM Management.                       *)
(***************************************************************************)
C7_SalesOpsThenCrm ==
    (Selected /\ QualifyingSkus = {"CGO-CRM", "CGO-SALESOPS"}) =>
       /\ NamesOf(services) = << "Sales Operations Consulting", "CRM Management" >>
       /\ total = 5000
       /\ \A k \in DOMAIN result :
             result[k].success =>
                /\ result[k].services = << "Sales Operations Consulting", "CRM Management" >>
                /\ result[k].total_monthly = 5000
                /\ QuoteUrlOfThisRun(result[k])

\* A successful run whose transcripts make exactly the two skus qualify.
C7_Witness ==
    /\ Returned
    /\ result[1].success
    /\ QualifyingSkus = {"CGO-CRM", "CGO-SALESOPS"}
    /\ \A i \in DOMAIN transcripts :
          /\ HitCount("CGO-CRM", transcripts[i]) >= 2
          /\ HitCount("CGO-SALESOPS", transcripts[i]) >= 2

\* The deal_url values handle_slash_command can hand to run_workflow.
DealUrls ==
    { strip(IF parse_deal_url_from_text(t) = NoValue THEN ""
            ELSE parse_deal_url_from_text(t)) : t \in CommandTexts } \ {""}

\* s holds a deal path contacts/{digits}/record/0-3/{digits}.
HasDealPath(s) ==
    \E a, b \in 1..Len(s) :
       /\ a <= b
       /\ \A k \in a..b : CharAt(s, k) \in Digits
       /\ a > Len("contacts/")
       /\ SubSeq(s, a - Len("contacts/"), a - 1) = "contacts/"
       /\ b + Len("/record/0-3/") + 1 <= Len(s)
       /\ SubSeq(s, b + 1, b + Len("/record/0-3/")) = "/record/0-3/"
       /\ CharAt(s, b + Len("/record/0-3/") + 1) \in Digits

DealPathIn == [u \in DealUrls |-> HasDealPath(u)]
ParsedReference == [u \in DealUrls |-> parse_deal_url(u)]

\* The background thread was started.
Started == pc \notin {"idle", "rejected"}

\* The tenant id parsed from the reference differs from the configured one.
TenantMismatch ==
    /\ Started
    /\ ParsedReference[deal_url] # << >>
    /\ ParsedReference[deal_url][1] # env.HUBSPOT_PORTAL_ID

\* The run makes no call and can only end in a result of the class cls.
EndsWithoutCallsIn(cls) ==
    /\ Calls = << >>
    /\ pc \in {"run_workflow", "returned", "done"}
    /\ ThreadEnded => Len(result) = 1
    /\ \A k \in DOMAIN result : Classification(result[k]) = cls

(***************************************************************************)
(* C8, as claimed: whenever the tenant id parsed from the reference        *)
(* differs from the configured tenant id, the run ends in a                *)
(* ValidationError, in no other class, and makes no CRM or narrative call. *)
(***************************************************************************)
C8_MismatchAlwaysValidationError ==
    TenantMismatch => EndsWithoutCallsIn("ValidationError")

(***************************************************************************)
(* C8, amended: the same for a run whose three required configuration      *)
(* values are present (with one absent the run ends in a                   *)
(* ConfigurationError before the reference is parsed).                     *)
(***************************************************************************)
C8_MismatchIsValidationError ==
    (ConfigComplete /\ TenantMismatch) => EndsWithoutCallsIn("ValidationError")

\* A fully configured run for a deal of tenant 2 has delivered its error.
C8_Witness ==
    /\ pc = "done"
    /\ ConfigComplete
    /\ TenantMismatch
    /\ url_portal = "2"
    /\ posts[1].fn = "post_error"

(***************************************************************************)
(* C9, as claimed: a reference string without a parseable deal path yields *)
(* a ValidationError, and the run makes no CRM or narrative call.          *)
(***************************************************************************)
C9_NoPathAlwaysValidationError ==
    (Started /\ ~DealPathIn[deal_url]) => EndsWithoutCallsIn("ValidationError")

(***************************************************************************)
(* C9, amended: the same for a run whose three required configuration      *)
(* values are present.                                                     *)
(***************************************************************************)
C9_NoPathIsValidationError ==
    (ConfigComplete /\ Started /\ ~DealPathIn[deal_url])
    => EndsWithoutCallsIn("ValidationError")

\* A fully configured run for a reference without a deal path has returned.
C9_Witness ==
    /\ Returned
    /\ ConfigComplete
    /\ ~DealPathIn[deal_url]
    /\ result[1].error = ERR_INVALID_URL
    /\ log = << [call |-> "parse", outcome |-> "none"] >>

(***************************************************************************)
(* C10: if a required configuration value (CRM access token, tenant        *)
(* identifier, narrative-generation key) is absent, the run ends in a      *)
(* ConfigurationError with no CRM and no narrative call, whatever the      *)
(* reference string is.                                                    *)
(***************************************************************************)
C10_MissingConfigIsConfigurationError ==
    (Started /\ ~ConfigComplete) => EndsWithoutCallsIn("ConfigurationError")

\* Only the narrative-generation key is absent and the reference is a deal
\* of the configured tenant: the run has delivered a configuration error.
C10_Witness ==
    /\ pc = "done"
    /\ Falsy(env.ANTHROPIC_API_KEY)
    /\ ~Falsy(env.HUBSPOT_API_KEY)
    /\ ~Falsy(env.HUBSPOT_PORTAL_ID)
    /\ ParsedReference[deal_url] # << >>
    /\ ParsedReference[deal_url][1] = env.HUBSPOT_PORTAL_ID
    /\ result[1].error = ERR_ANTHROPIC_CONFIG

(***************************************************************************)
(* Vocabulary of the failure-policy properties.                            *)
(***************************************************************************)
NarrativeCalls == {"generate_executive_summary", "generate_90_day_preview"}
CrmWriteCalls == {"create_quote", "create_line_item", "associate_line_item"}

HasCallIn(S) == \E i \in DOMAIN log : log[i].call \in S
HasEntry(call, outcome) == \E i \in DOMAIN log : log[i] = [call |-> call, outcome |-> outcome]

\* The run has written nothing to the CRM and attempted no write.
NoCrmWrite ==
    /\ crm_quotes = {}
    /\ crm_line_items = {}
    /\ ~HasCallIn(CrmWriteCalls)

\* fetch_fathom_transcripts has returned to run_workflow.
TranscriptsFetched ==
    \/ pc \in {"recommend", "generate_executive_summary", "generate_90_day_preview",
               "fetch_products", "create_quote", "line_items", "associate_line_item"}
    \/ Returned /\ HasCallIn({"fetch_meeting_assoc"})
    \/ pc = "raised" /\ HasCallIn({"recommend"})

TolerantCalls == {"fetch_company", "fetch_contact", "fetch_meeting"}

\* The log entries of one kind of call, in order.
EntriesOf(call) ==
    LET IsThat(e) == e.call = call
    IN  SelectSeq(log, IsThat)

FailedCount(call) ==
    Cardinality({ i \in DOMAIN log : log[i].call = call /\ log[i].outcome # "ok" })

\* The ids, in input order, whose fetch (the i-th call of that kind) succeeded.
FetchedIds(ids, call) ==
    LET es == EntriesOf(call)
        pairs == [i \in DOMAIN ids |-> [id |-> ids[i], outcome |-> es[i].outcome]]
        IsOk(p) == p.outcome = "ok"
        kept == SelectSeq(pairs, IsOk)
    IN  [i \in DOMAIN kept |-> kept[i].id]

\* The positions of the run after fetch_companies, fetch_contacts and
\* fetch_fathom_transcripts returned.
AfterTranscripts ==
    {"recommend", "generate_executive_summary", "generate_90_day_preview",
     "fetch_products", "create_quote", "line_items", "associate_line_item"}
AfterContacts == AfterTranscripts \cup {"fetch_meeting_assoc", "fetch_meetings"}
AfterCompanies == AfterContacts \cup {"fetch_contacts"}

(***************************************************************************)
(* C12: the tolerant fetchers never fail the phase: no failed fetch of a   *)
(* company, a contact or a meeting ends the run; of N ids fetched in       *)
(* order, k of them failing, the returned list has exactly N-k entries,    *)
(* the records whose fetch succeeded, in input order.                      *)
(***************************************************************************)
C12_TolerantFetchersNeverFail ==
    /\ pc = "raised" => log[Len(log)].call \notin TolerantCalls
    /\ pc \in AfterCompanies =>
          /\ Len(companies) = Len(company_ids) - FailedCount("fetch_company")
          /\ [i \in DOMAIN companies |-> companies[i].id]
                = FetchedIds(company_ids, "fetch_company")
    /\ pc \in AfterContacts =>
          /\ Len(contacts) = Len(contact_ids) - FailedCount("fetch_contact")
          /\ [i \in DOMAIN contacts |-> contacts[i].id]
                = FetchedIds(contact_ids, "fetch_contact")
    /\ pc \in AfterTranscripts =>
          Len(transcripts) = CountOf("fetch_meeting") - FailedCount("fetch_meeting")

(***************************************************************************)
(* C13: every WorkflowResult has the shape of its outcome.  A Failed       *)
(* result has success = false, an error cause and none of quote_url,       *)
(* company_name, total_monthly, services; a result with success = true     *)
(* has these four and is returned only when this run created the quote in  *)
(* the CRM; no result mixes the shapes, and the post made for a result     *)
(* is the one of its outcome.                                              *)
(***************************************************************************)
FailedFields == {"success", "error"}
SuccessFields == {"success", "quote_url", "company_name", "total_monthly", "services"}

WellFormed(r) ==
    IF r.success
    THEN /\ DOMAIN r = SuccessFields
         /\ HasEntry("create_quote", "ok")
         /\ QuoteUrlOfThisRun(r)
         /\ r.company_name = company_name
         /\ r.total_monthly = total
         /\ r.services = NamesOf(services)
    ELSE /\ DOMAIN r = FailedFields
         /\ r.error # ""
         /\ r.error # NoValue

C13_ResultWellFormed ==
    /\ \A k \in DOMAIN result : WellFormed(result[k])
    /\ \A k \in DOMAIN posts :
          /\ posts[k].payload = result[k]
          /\ posts[k].fn = "post_success" <=> result[k].success

\* A successful result, delivered, for the quote of this run with a line item.
C13_Witness ==
    /\ pc = "done"
    /\ DOMAIN result[1] = SuccessFields
    /\ posts[1].fn = "post_success"
    /\ \E q \in crm_quotes : \E li \in crm_line_items : li.quote = q.id

(***************************************************************************)
(* Vocabulary of the quote assembly.                                       *)
(***************************************************************************)
\* create_quote_and_line_items has created its quote.
QuoteCreated == quote_id # NoValue

\* The selected services the loop of lines 269-283 has dealt with: all
\* before idx, and the one at idx once its line item exists (its
\* association is still to be made, or has failed).
Handled ==
    { i \in DOMAIN services :
        \/ i < idx
        \/ /\ i = idx
           /\ \/ pc = "associate_line_item"
              \/ /\ log[Len(log)].call = "associate_line_item"
                 /\ log[Len(log)].outcome # "ok" }

Resolved(i) == services[i].sku \in DOMAIN sku_to_id

LineItemsOf(i) ==
    { li \in crm_line_items :
        /\ li.name = services[i].name
        /\ li.hs_product_id = sku_to_id[services[i].sku] }

(***************************************************************************)
(* C14: a selected service whose sku has no product id in the product      *)
(* lookup is passed over without error: no line item is created for it,    *)
(* one is created for every other selected service, and the run still      *)
(* ends in Success, also when no selected sku has a product id (a quote    *)
(* without line items).  A run that created its quote and ended otherwise  *)
(* had a failed call, never a skipped service, as its last step.           *)
(***************************************************************************)
C14_UnresolvedSkuSkipped ==
    QuoteCreated =>
       /\ \A i \in Handled :
             IF Resolved(i)
             THEN Cardinality(LineItemsOf(i)) = 1
             ELSE \A li \in crm_line_items : li.name # services[i].name
       /\ Cardinality(crm_line_items) = Cardinality({ i \in Handled : Resolved(i) })
       /\ Returned =>
             IF ~HasEntry("create_line_item", "http_error")
                /\ ~HasEntry("associate_line_item", "http_error")
             THEN /\ result[1].success
                  /\ Handled = DOMAIN services
             ELSE /\ ~result[1].success
                  /\ log[Len(log)].outcome = "http_error"

\* A successful run for two selected services of which only the first has a
\* product id: one line item, for that one.
C14_Witness ==
    /\ Returned
    /\ result[1].success
    /\ Len(services) = 2
    /\ Resolved(1)
    /\ ~Resolved(2)
    /\ Cardinality(crm_line_items) = 1
    /\ \A li \in crm_line_items : li.name = services[1].name /\ li.quote = quote_id

(***************************************************************************)
(* Vocabulary of the default service.                                      *)
(***************************************************************************)
IndividualPrices == { Entry(k).price : k \in NonBundleSkus }
LowestPrice == CHOOSE p \in IndividualPrices : \A q \in IndividualPrices : p <= q
HighestPrice == CHOOSE p \in IndividualPrices : \A q \in IndividualPrices : p >= q

\* run_workflow is past line 332 with transcripts of which no sku qualifies.
NoSkuQualified ==
    /\ TranscriptsFetched
    /\ pc # "recommend"
    /\ transcripts # << >>
    /\ QualifyingSkus = {}

(***************************************************************************)
(* C15, as claimed: when the transcript set is non-empty and no sku        *)
(* qualifies, the run does not fail but goes on with exactly one default   *)
(* service, one of the lowest-priced individual services of the catalog,   *)
(* and a total equal to that entry's catalog price.                        *)
(***************************************************************************)
C15_DefaultIsLowestPriced ==
    NoSkuQualified =>
       /\ HasCallIn({"recommend"})
       /\ \A k \in DOMAIN result : Classification(result[k]) # "PreconditionFailed"
       /\ Len(services) = 1
       /\ services[1] \in Range(SERVICES)
       /\ services[1].sku \in NonBundleSkus
       /\ services[1].price = LowestPrice
       /\ total = services[1].price

(***************************************************************************)
(* C15, amended: the same, the one default service being the first entry   *)
(* of the catalog, Marketing Operations Consulting, which is one of the    *)
(* highest-priced individual services (3000, the lowest being 1500); the   *)
(* total, 3000, equals that entry's catalog price.                         *)
(***************************************************************************)
C15_DefaultIsFirstEntry ==
    NoSkuQualified =>
       /\ HasCallIn({"recommend"})
       /\ \A k \in DOMAIN result : Classification(result[k]) # "PreconditionFailed"
       /\ services = << SERVICES[1] >>
       /\ services[1].name = "Marketing Operations Consulting"
       /\ services[1].sku \in NonBundleSkus
       /\ services[1].price = HighestPrice
       /\ services[1].price > LowestPrice
       /\ total = 3000
       /\ total = services[1].price

\* A run whose one transcript carries the marker and no indicator phrase
\* has gone on to narrative generation with the default service.
C15_Witness ==
    /\ pc = "generate_executive_summary"
    /\ transcripts = << "AI Meeting Summary: budget only" >>
    /\ QualifyingSkus = {}
    /\ Len(services) = 1
    /\ total = 3000

(***************************************************************************)
(* C16: on every path that reaches narrative generation (individual        *)
(* selection, bundle override, default service) the total handed to the    *)
(* executive summary and reported as total_monthly is the sum of the       *)
(* catalog prices of the selected services (the bundle's fixed price when  *)
(* the bundle is the one selected entry), and the selected services are    *)
(* distinct entries of the catalog.                                        *)
(***************************************************************************)
RECURSIVE CatalogPriceSum(_)
CatalogPriceSum(svcs) ==
    IF svcs = << >> THEN 0
    ELSE Entry(Head(svcs).sku).price + CatalogPriceSum(Tail(svcs))

C16_TotalIsSumOfSelected ==
    /\ HasCallIn(NarrativeCalls) => Selected
    /\ Selected =>
          /\ \A i \in DOMAIN services : services[i] \in Range(SERVICES)
          /\ \A i, j \in DOMAIN services : i # j => services[i].sku # services[j].sku
          /\ total = CatalogPriceSum(services)
          /\ (\E i \in DOMAIN services : IsBundle(services[i])) =>
                /\ services = << BundleEntry >>
                /\ total = BundleEntry.price
          /\ \A k \in DOMAIN result :
                result[k].success =>
                   /\ result[k].total_monthly = CatalogPriceSum(services)
                   /\ result[k].services = NamesOf(services)

\* The bundle override: the executive summary has been generated for the
\* bundle alone at the bundle's price.
C16_Witness ==
    /\ pc = "generate_90_day_preview"
    /\ Cardinality(QualifyingSkus) = 4
    /\ services = << BundleEntry >>
    /\ total = 12000
    /\ HasEntry("generate_executive_summary", "ok")

(***************************************************************************)
(* C17: when the run has reached a terminal state, Success or Failed,      *)
(* every line item it created in the CRM has quantity 1 and the catalog    *)
(* price of its service and is associated to the quote the same run        *)
(* created; no created line item is left unassociated.                     *)
(***************************************************************************)
EntryNamed(name) == CHOOSE s \in Range(SERVICES) : s.name = name

C17_LineItemsAssociated ==
    Returned =>
       \A li \in crm_line_items :
          /\ li.quantity = 1
          /\ li.price = ToString(EntryNamed(li.name).price)
          /\ li.quote = quote_id
          /\ \E q \in crm_quotes : q.id = li.quote

(***************************************************************************)
(* Properties of the parsers, under SpecParse.                             *)
(***************************************************************************)
AllDigits(s, a, b) == \A k \in a..b : CharAt(s, k) \in Digits

\* The well-formed deal paths contacts/{tenantId}/record/0-3/{dealId} of a
\* text: where each starts and its two ids, an id being a whole path
\* segment of digits (the deal id ends where the digits end).
PathsIn(s) ==
    LET head == "contacts/"
        mid == "/record/0-3/"
        starts == { p \in 1..(Len(s) - Len(head) + 1) : SubSeq(s, p, p + Len(head) - 1) = head }
        AtStart(p) ==
           LET a == p + Len(head)
           IN  { [at |-> p, tenantId |-> SubSeq(s, a, b), dealId |-> SubSeq(s, b + Len(mid) + 1, d)] :
                   << b, d >> \in
                      { bd \in (a..(Len(s) - Len(mid))) \X (a..Len(s)) :
                          /\ SubSeq(s, bd[1] + 1, bd[1] + Len(mid)) = mid
                          /\ bd[2] > bd[1] + Len(mid)
                          /\ AllDigits(s, a, bd[1])
                          /\ AllDigits(s, bd[1] + Len(mid) + 1, bd[2])
                          /\ (bd[2] = Len(s) \/ CharAt(s, bd[2] + 1) \notin Digits) } }
    IN  UNION { AtStart(p) : p \in starts }

DealPathsOf == [t \in ParseTexts |-> PathsIn(t)]

IdPair(path) == << path.tenantId, path.dealId >>
Leftmost(paths) == CHOOSE p \in paths : \A q \in paths : p.at <= q.at

(***************************************************************************)
(* C18: for a text that contains a well-formed deal path                   *)
(* contacts/{tenantId}/record/0-3/{dealId} with numeric ids, with any      *)
(* other text around it, parse_deal_url, on the text itself and on what    *)
(* parse_deal_url_from_text and handle_slash_command make of it as a       *)
(* command text, returns the (tenantId, dealId) of that path: of the one   *)
(* path when the text holds one, of a path of the text when it holds       *)
(* several (the leftmost for parse_deal_url on the text itself); for a     *)
(* text without a path of that shape it returns no match.                  *)
(***************************************************************************)
C18_ParseReturnsThePath ==
    pc \in {"parsed_url", "parsed_text"} =>
       LET paths == DealPathsOf[request.text]
           got == << url_portal, deal_id >>
       IN  /\ paths = {} => got = << NoValue, NoValue >>
           /\ paths # {} => got \in { IdPair(p) : p \in paths }
           /\ (paths # {} /\ pc = "parsed_url") => got = IdPair(Leftmost(paths))
           /\ \A p \in paths : paths = {p} => got = IdPair(p)

\* A deal url between other words, as a command text: the url is singled
\* out and its two ids are returned.
C18_Witness ==
    /\ pc = "parsed_text"
    /\ request.text = "quote for https://app.hubspot.com/contacts/2/record/0-3/1 please"
    /\ deal_url = "https://app.hubspot.com/contacts/2/record/0-3/1"
    /\ url_portal = "2"
    /\ deal_id = "1"

(***************************************************************************)
(* Properties of a run, under Spec: the order of the CRM writes.           *)
(***************************************************************************)
FatalBeforeQuote == {"fetch_deal", "generate_executive_summary", "generate_90_day_preview"}

\* A fatal phase before the quote creation has failed: a check of lines
\* 296-306, the deal fetch, the transcripts, or a narrative call.
EarlierPhaseFailed ==
    \/ \E i \in DOMAIN log : log[i].call \in FatalBeforeQuote /\ log[i].outcome # "ok"
    \/ \E k \in DOMAIN result :
          \/ Classification(result[k])
                \in {"ConfigurationError", "ValidationError", "PreconditionFailed"}
          \/ /\ ~result[k].success
             /\ result[k].error \in {ERR_HUBSPOT_API, ERR_CLAUDE_API}

\* The calls of the log come in this order, each having ended ok.
OkInOrder(calls) ==
    \E f \in [DOMAIN calls -> DOMAIN log] :
       /\ \A i \in DOMAIN calls : log[f[i]] = [call |-> calls[i], outcome |-> "ok"]
       /\ \A i, j \in DOMAIN calls : i < j => f[i] < f[j]

PositionOf(call) == CHOOSE i \in DOMAIN log : log[i].call = call

(***************************************************************************)
(* C19: a run creates at most one quote in the CRM, and attempts it only   *)
(* after the configuration and tenant checks passed, the deal fetch        *)
(* succeeded, the transcript set is non-empty and both narrative calls     *)
(* succeeded, the executive summary before the 90-day preview; line items  *)
(* are created only after that quote exists.  In every state where an      *)
(* earlier fatal phase has failed the run has made no CRM write.           *)
(***************************************************************************)
C19_QuoteAfterFatalPhases ==
    /\ Cardinality(crm_quotes) <= 1
    /\ CountOf("create_quote") <= 1
    /\ crm_quotes # {} <=> HasEntry("create_quote", "ok")
    /\ HasCallIn({"create_quote"}) =>
          /\ ConfigComplete
          /\ ParsedReference[deal_url] # << >>
          /\ ParsedReference[deal_url][1] = env.HUBSPOT_PORTAL_ID
          /\ \A q \in crm_quotes : q.deal = ParsedReference[deal_url][2]
          /\ transcripts # << >>
          /\ OkInOrder(<< "fetch_deal", "generate_executive_summary",
                          "generate_90_day_preview" >>)
          /\ \A i \in DOMAIN log :
                log[i].call \in FatalBeforeQuote => i < PositionOf("create_quote")
    /\ (crm_line_items # {} \/ HasCallIn({"create_line_item", "associate_line_item"})) =>
          /\ crm_quotes # {}
          /\ \A i \in DOMAIN log :
                log[i].call \in {"create_line_item", "associate_line_item"}
                   => /\ PositionOf("create_quote") < i
                      /\ log[PositionOf("create_quote")].outcome = "ok"
    /\ EarlierPhaseFailed => NoCrmWrite

\* The quote of the run exists and its first line item has just been created.
C19_Witness ==
    /\ pc = "associate_line_item"
    /\ Cardinality(crm_quotes) = 1
    /\ Cardinality(crm_line_items) = 1
    /\ OkInOrder(<< "fetch_deal", "generate_executive_summary", "generate_90_day_preview",
                    "fetch_products", "create_quote", "create_line_item" >>)

(***************************************************************************)
(* Vocabulary of the transport.                                            *)
(***************************************************************************)
ACK == "200 Generating CGO proposal"

\* The text has a character that is no whitespace.
NonBlank(text) == \E i \in 1..Len(text) : CharAt(text, i) \notin Whitespace

\* The request received is one the transport starts a run for.
Accepted ==
    /\ ~Falsy(env.SLACK_SIGNING_SECRET)
    /\ request.signature_key = env.SLACK_SIGNING_SECRET
    /\ request.response_url # ""
    /\ NonBlank(request.text)

(***************************************************************************)
(* C20: the transport starts a run only for a request whose signature      *)
(* verifies (never with the signing secret unset), whose response_url is   *)
(* not empty and whose command text is not empty after trimming; for any   *)
(* other request there is no run, no CRM or narrative call and no post.    *)
(* When a run is started the acknowledgement is returned before the run    *)
(* has taken a step, and the result is posted, to the response_url of the  *)
(* request, only after run_workflow has returned.                          *)
(***************************************************************************)
C20_RunOnlyForAcceptedRequest ==
    /\ pc = "idle" <=> request = NoRequest
    /\ request # NoRequest => (Started <=> Accepted)
    /\ ~Started =>
          /\ log = << >>
          /\ result = << >>
          /\ posts = << >>
          /\ NoCrmWrite
          /\ deal_url = NoValue
    /\ pc = "rejected" => http_response # ACK
    /\ Started =>
          /\ http_response = ACK
          /\ response_url = request.response_url
          /\ deal_url # ""
    /\ pc = "run_workflow" => (log = << >> /\ result = << >> /\ posts = << >>)
    /\ posts # << >> =>
          /\ pc = "done"
          /\ Len(posts) = 1
          /\ Len(result) = 1
          /\ posts[1].response_url = request.response_url

\* The acknowledgement has been returned and the run has not taken a step.
C20_Witness ==
    /\ pc = "run_workflow"
    /\ http_response = ACK
    /\ Accepted
    /\ result = << >>

(***************************************************************************)
(* Several runs at once.                                                   *)
(***************************************************************************)
\* The frames of all the threads, the running one included.
AllFrames == suspended \cup {Frame}

OkCount(f, call) ==
    Cardinality({ i \in DOMAIN f.log : f.log[i].call = call /\ f.log[i].outcome = "ok" })

\* The quote run f asks the CRM to create, from its own locals.
QuoteOf(f) ==
    [ id |-> f.quote_id,
      hs_title |-> "CGO in a Box Proposal - " \o f.company_name,
      hs_status |-> "DRAFT",
      hs_comments |-> f.exec_summary,
      cgo_90_day_preview |-> f.preview,
      deal |-> f.deal_id ]

\* The line items run f holds the id of: those of its quote, and the one it
\* has created and not associated yet.
OwnLineItems(f) ==
    { li \in crm_line_items :
        \/ f.quote_id # NoValue /\ li.quote = f.quote_id
        \/ li.quote = NoValue /\ li.id = f.line_item_id }

\* li is the line item of one of the services run f selected.
LineItemOfRun(li, f) ==
    \E i \in DOMAIN f.services :
        /\ f.services[i].sku \in DOMAIN f.sku_to_id
        /\ li.hs_product_id = f.sku_to_id[f.services[i].sku]
        /\ li.name = f.services[i].name
        /\ li.price = ToString(f.services[i].price)
        /\ li.quantity = 1

\* The results and the CRM writes of run f, without the ids the CRM chose.
ResultsOfRun(f) ==
    [ k \in DOMAIN f.result |->
        IF f.result[k].success THEN [f.result[k] EXCEPT !.quote_url = "quote"]
        ELSE f.result[k] ]
WritesOfRun(f) ==
    [ quotes |-> IF f.quote_id = NoValue THEN {}
                 ELSE { [q EXCEPT !.id = "quote"] : q \in { QuoteOf(f) } \cap crm_quotes },
      line_items |-> { [li EXCEPT !.id = "line item",
                                  !.quote = IF li.quote = NoValue THEN NoValue ELSE "quote"] :
                         li \in OwnLineItems(f) } ]

\* Every quote of the CRM is the quote of one run, made of that run's own
\* locals, and there are as many quotes as runs whose quote creation
\* succeeded.
QuotesOfTheirRuns ==
    /\ \A q \in crm_quotes : \E f \in AllFrames : q = QuoteOf(f)
    /\ \A f, g \in AllFrames : f.quote_id # NoValue /\ f.quote_id = g.quote_id => f = g
    /\ \A f \in AllFrames :
          /\ OkCount(f, "create_quote") <= 1
          /\ OkCount(f, "create_quote") = 1 <=> f.quote_id # NoValue
          /\ f.quote_id # NoValue => QuoteOf(f) \in crm_quotes
    /\ Cardinality(crm_quotes) =
          Cardinality({ f \in AllFrames : OkCount(f, "create_quote") = 1 })
    /\ Cardinality({ q.id : q \in crm_quotes }) = Cardinality(crm_quotes)

\* Every line item of the CRM is the line item of one run, made of that
\* run's own selection, on no quote or on that run's quote.
LineItemsOfTheirRuns ==
    /\ \A li \in crm_line_items :
          /\ Cardinality({ f \in AllFrames : li \in OwnLineItems(f) }) = 1
          /\ \A f \in AllFrames : li \in OwnLineItems(f) => LineItemOfRun(li, f)
    /\ \A f \in AllFrames :
          Cardinality(OwnLineItems(f)) = OkCount(f, "create_line_item")

\* Every result of a run is made of that run's own locals.
ResultsOfTheirRuns ==
    \A f \in AllFrames : \A k \in DOMAIN f.result :
        /\ Len(f.result) = 1
        /\ f.result[k].success =>
              /\ f.result[k].quote_url = quote_url_of(env.HUBSPOT_PORTAL_ID, f.quote_id)
              /\ f.quote_id # NoValue
              /\ f.result[k].company_name = f.company_name
              /\ f.result[k].total_monthly = f.total
              /\ f.result[k].services = [i \in DOMAIN f.services |-> f.services[i].name]
        /\ f.pc = "done" =>
              /\ Len(f.posts) = 1
              /\ f.posts[1].response_url = f.request.response_url
              /\ f.posts[1].payload = f.result[k]

\* Two ended runs given the same reference and the same responses to their
\* calls have the same results and made the same CRM writes.
SameInputsSameOutputs ==
    \A f, g \in AllFrames :
        /\ Ended(f) /\ Ended(g)
        /\ f.request.text = g.request.text
        /\ f.log = g.log
        => /\ ResultsOfRun(f) = ResultsOfRun(g)
           /\ WritesOfRun(f) = WritesOfRun(g)

\* A step leaves the frames of the threads that do not run as they are, and
\* the CRM objects of the other runs as they are.
StepOfOneRun ==
    /\ \A g \in suspended : g \in suspended' \/ g = Frame'
    /\ crm_quotes \subseteq crm_quotes'
    /\ \A li \in crm_line_items :
          \/ li \in crm_line_items'
          \/ /\ li \in OwnLineItems(Frame)
             /\ [li EXCEPT !.quote = quote_id] \in crm_line_items'

RunsIsolated ==
    /\ QuotesOfTheirRuns
    /\ LineItemsOfTheirRuns
    /\ ResultsOfTheirRuns
    /\ SameInputsSameOutputs

\* C21: for every interleaving of the runs (runs for the same deal
\* included), the results and the CRM writes of each run are made of its own
\* reference, the configuration and the responses to its own calls, no step
\* of a run touches the frame or the CRM objects of another run, and k runs
\* whose quote creation succeeded leave k distinct quotes.
C21_ConcurrentRunsIsolated == []RunsIsolated /\ [][StepOfOneRun]_vars

\* Two runs for the same deal, interleaved, ended in success: the run that
\* got the first quote got the second line item.
C21_Witness ==
    \E f, g \in AllFrames :
        /\ f.pc = "done" /\ g.pc = "done"
        /\ f.deal_id = g.deal_id
        /\ f.result[1].success /\ g.result[1].success
        /\ f.quote_id = "9001" /\ g.quote_id = "9002"
        /\ \E li \in crm_line_items : li.id = "li1" /\ li.quote = "9002"

(***************************************************************************)
(* Vocabulary of the line items of a successful run.                       *)
(***************************************************************************)
\* The selected services whose sku has a product id, and the place of one
\* of them among them.
ResolvedServices == { i \in DOMAIN services : Resolved(i) }
RankOf(i) == Cardinality({ j \in ResolvedServices : j <= i })

\* The number a line item's price was written from (line 277: str(price)).
PriceValue(s) == CHOOSE p \in { SERVICES[i].price : i \in DOMAIN SERVICES } : ToString(p) = s

\* What lines 166-180 and 330-333 select for the transcripts of the run.
SelectionOfTranscripts ==
    IF QualifyingSkus = {} THEN { SERVICES[1] }
    ELSE IF Cardinality(QualifyingSkus) >= 4 THEN { BundleEntry }
    ELSE { Entry(sku) : sku \in QualifyingSkus }

RECURSIVE PriceSum(_)
PriceSum(items) ==
    IF items = {} THEN 0
    ELSE LET li == CHOOSE x \in items : TRUE
         IN  PriceValue(li.price) + PriceSum(items \ {li})

(***************************************************************************)
(* C22: on a successful run the line items created are one for each        *)
(* selected service whose sku has a product id and no other, created in    *)
(* the order of the selected services; the services and the total of the   *)
(* result are those of all the selected services, the passed-over ones     *)
(* included; so the prices of the line items sum to at most the total, and *)
(* to the total exactly when every selected sku has a product id.          *)
(***************************************************************************)
C22_LineItemsOfResolvedInOrder ==
    \A k \in DOMAIN result :
        result[k].success =>
           /\ Cardinality(crm_line_items) = Cardinality(ResolvedServices)
           /\ \A i \in ResolvedServices :
                 \E li \in crm_line_items :
                    /\ li.id = LineItemId(RankOf(i))
                    /\ li.name = services[i].name
                    /\ li.hs_product_id = sku_to_id[services[i].sku]
                    /\ li.price = ToString(services[i].price)
                    /\ li.quantity = 1
           /\ Range(services) = SelectionOfTranscripts
           /\ result[k].services = NamesOf(services)
           /\ Len(result[k].services) = Cardinality(SelectionOfTranscripts)
           /\ result[k].total_monthly = CatalogPriceSum(services)
           /\ PriceSum(crm_line_items) <= result[k].total_monthly
           /\ PriceSum(crm_line_items) = result[k].total_monthly
                 <=> ResolvedServices = DOMAIN services

\* A successful run that passed over the second of its two selected
\* services: one line item, for the first, at less than the total of the
\* result, which names both.
C22_Witness ==
    /\ Returned
    /\ result[1].success
    /\ Len(services) = 2
    /\ ResolvedServices = {1}
    /\ \E li \in crm_line_items : li.id = LineItemId(1) /\ li.name = services[1].name
    /\ PriceSum(crm_line_items) < result[1].total_monthly
    /\ Len(result[1].services) = 2

=============================================================================
